---- MODULE Spec2Model ----
(***************************************************************************)
(* annotation_canvas: the command stack (OperationManager and its          *)
(* operations), the data store (DataManager) and the interaction state     *)
(* machine (StateManager) fed by the input adapter (InputHandler).         *)
(*                                                                         *)
(* World coordinates are integers; a point is <<x, y>>.  Shapes and        *)
(* operations are objects compared by identity in the program, so shapes   *)
(* live in a heap indexed by shape id and operations carry an id.          *)
(***************************************************************************)
EXTENDS Integers, Sequences, FiniteSets, TLC

\* ------------------------------------------------------------------ bounds
\* shape objects ever allocated, operation objects ever constructed
MaxShapes == 3
MaxOps == 2
MaxVertices == 4
\* input events of one run of the interaction
MaxEvents == 6
\* handlers that subscribe to the event bus
MaxHandlers == 3

\* ------------------------------------------------------- program constants
PIXEL_TOLERANCE == 5
CONTROL_POINT_TOLERANCE == 12
SHAPE_DEFAULT_TOLERANCE == 5
POLYGON_SNAP_DISTANCE == 15
POLYGON_MIN_VERTICES == 3
POLYGON_CANCEL_MIN_VERTICES == 1

\* world units per screen pixel reported by the view box
PixelSize == 1

None == 0
NoPos == <<>>
NoCp == -1

\* pointer positions the input adapter delivers
Positions == { <<0, 0>>, <<3, 0>>, <<40, 30>> }

Tools == { "POINT", "RECTANGLE", "ELLIPSE", "POLYGON" }

\* ---------------------------------------------------------------- helpers
PAdd(p, q) == << p[1] + q[1], p[2] + q[2] >>
PSub(p, q) == << p[1] - q[1], p[2] - q[2] >>
PNeg(p) == << 0 - p[1], 0 - p[2] >>

Abs(n) == IF n < 0 THEN 0 - n ELSE n
Min2(a, b) == IF a <= b THEN a ELSE b
Max2(a, b) == IF a >= b THEN a ELSE b

\* squared distance; distance_between_points(p, q) <= t  <=>  DistSq(p, q) <= t*t
DistSq(p, q) == (q[1] - p[1]) * (q[1] - p[1]) + (q[2] - p[2]) * (q[2] - p[2])

\* truth value of a QPointF-or-None field: None and the null point (0, 0)
\* are both false
Truthy(p) == p # NoPos /\ p # <<0, 0>>

\* list.remove(e): the first occurrence goes
SeqRemove(s, e) ==
    LET at == { i \in 1..Len(s) : s[i] = e }
        first == CHOOSE i \in at : \A j \in at : i <= j
    IN IF at = {} THEN s ELSE SubSeq(s, 1, first - 1) \o SubSeq(s, first + 1, Len(s))
InSeq(s, e) == \E i \in 1..Len(s) : s[i] = e
Range(s) == { s[i] : i \in 1..Len(s) }

\* ------------------------------------------------------------------ state
VARIABLES
    heap,               \* shape objects: heap[id] = [kind, pts]
    dm_shapes,          \* DataManager._shapes (sequence of shape ids)
    selected,           \* DataManager._selected_shape
    hovered,            \* DataManager._hovered_shape
    temp_shape,         \* DataManager._temp_shape
    current_tool,       \* DataManager._current_tool
    current_color,      \* DataManager._current_color
    current_width,      \* DataManager._current_width
    operation_history,  \* OperationManager.operation_history
    current_index,      \* OperationManager.current_index
    nextOp,             \* identity of the next operation object
    track,              \* what the bookkeeping below records
    lastCall,           \* the last command-stack call and what it returned
    preVal,             \* per history entry: shape list value before the operation
    cleanFrom,          \* first history position of the current run of executes
    runPhase,           \* "exec", "undo", "redo" or "off"
    postVal,            \* shape list value when the undo run started
    current_state,      \* StateManager.current_state
    drag_start_pos,     \* StateManager.drag_start_pos
    drag_start_shape,   \* StateManager.drag_start_shape
    drag_start_control_point,  \* index of StateManager.drag_start_control_point
    move_start_mouse_pos,      \* StateManager.move_start_mouse_pos
    move_start_shape_pos,      \* StateManager.move_start_shape_pos
    scale_start_pos,    \* StateManager.scale_start_pos
    polygon_vertices,   \* StateManager.polygon_vertices
    temp_polygon,       \* StateManager.temp_polygon
    left_button_pressed,  \* InputHandler.left_button_pressed
    mouse_dragging,     \* InputHandler.mouse_dragging
    right_button_pressed,   \* InputHandler.right_button_pressed
    middle_button_pressed,  \* InputHandler.middle_button_pressed
    _shape_graphics_items,  \* CanvasRenderer._shape_graphics_items
    snap_to_grid,       \* Config "drawing.snap_to_grid"
    gesture,            \* what the pointer gesture in progress has seen so far
    liveLeft,           \* the shapes as a live drag left them, and what has
                        \* been called on its operation since
    events,             \* number of input events delivered so far
    dataCall,           \* the last call of the data store and what it returned
    published,          \* the events that call published, in order
    subscribers,        \* EventBus._subscribers: per event kind, the handlers
    dispatch            \* the last publish: who was called and how it ended

dataVars == << heap, dm_shapes, selected, hovered, temp_shape, current_tool,
              current_color, current_width >>
stackVars == << operation_history, current_index, nextOp >>
ghostVars == << track, lastCall, preVal, cleanFrom, runPhase, postVal >>
smVars == << current_state, drag_start_pos, drag_start_shape, drag_start_control_point,
             move_start_mouse_pos, move_start_shape_pos, scale_start_pos,
             polygon_vertices, temp_polygon >>
otherButtons == << right_button_pressed, middle_button_pressed >>
renderVars == << _shape_graphics_items >>
asideVars == << otherButtons, renderVars >>
inputVars == << left_button_pressed, mouse_dragging, asideVars >>
callVars == << dataCall, published >>
busVars == << subscribers, dispatch >>
vars == << dataVars, stackVars, ghostVars, smVars, inputVars, snap_to_grid, gesture,
          liveLeft, events, callVars, busVars >>

\* ------------------------------------------------------------ shape model
\* A shape object is [kind, pts]: Point <<position>>, Rectangle and Ellipse
\* <<start_point, end_point>>, Polygon its vertices.

\* the enumerations, a member's position being its value: DrawType,
\* DrawColor and PenWidth start with NONE = 0
DrawTypes == << "POINT", "RECTANGLE", "ELLIPSE", "POLYGON" >>
DrawColors == << "RED", "GREEN", "YELLOW", "BLUE", "PURPLE", "ORANGE", "BLACK", "WHITE" >>
PenWidths == << "THIN", "MEDIUM", "THICK", "ULTRA_THIN", "ULTRA_THICK" >>
\* Enum(value): the member, or "invalid" where the constructor raises ValueError
EnumOf(names, v) ==
    IF v = 0 THEN "NONE" ELSE IF v \in 1..Len(names) THEN names[v] ELSE "invalid"
\* member.value
EnumValue(names, m) ==
    IF m = "NONE" THEN 0 ELSE CHOOSE v \in 1..Len(names) : names[v] = m
\* the class of the shapes of a DrawType
ShapeKinds == << "Point", "Rectangle", "Ellipse", "Polygon" >>

\* the range of the z-order and its named levels
MIN_Z_ORDER == -2
MAX_Z_ORDER == 2
DEFAULT_Z_ORDER == 0
FOREGROUND_Z_ORDER == 2
BACKGROUND_Z_ORDER == -2

validate_z_order_raw(z_order) == z_order
validate_z_order(z_order) ==
    IF z_order < MIN_Z_ORDER THEN MIN_Z_ORDER
    ELSE IF z_order > MAX_Z_ORDER THEN MAX_Z_ORDER
    ELSE z_order

\* a shape object as its constructor leaves it; zarg is << >> for
\* z_order=None and << z >> for z_order=z
NewShape(kind, pts, color, pen_width, zarg) ==
    [kind |-> kind, pts |-> pts, hovered |-> FALSE, cp_hovered |-> NoCp,
     color |-> color, pen_width |-> pen_width,
     z_order |-> validate_z_order(IF zarg = << >> THEN DEFAULT_Z_ORDER ELSE zarg[1])]
Shape(kind, pts) == NewShape(kind, pts, "RED", "MEDIUM", << >>)

\* BaseShape.set_z_order, bring_to_front, send_to_back
set_z_order(sh, z_order) == [sh EXCEPT !.z_order = validate_z_order(z_order)]
bring_to_front(sh) == set_z_order(sh, FOREGROUND_Z_ORDER)
send_to_back(sh) == set_z_order(sh, BACKGROUND_Z_ORDER)

\* move_by for every variant
move_by(sh, off) == [sh EXCEPT !.pts = [i \in 1..Len(@) |-> PAdd(@[i], off)]]

\* scale_by_control_point: dispatch on the control point's index
scale_by_control_point(sh, idx, newpos) ==
    CASE sh.kind = "Point" -> [sh EXCEPT !.pts = << newpos >>]
      [] sh.kind \in {"Rectangle", "Ellipse"} ->
            IF idx = 0 THEN [sh EXCEPT !.pts[1] = newpos]
            ELSE IF idx = 1 THEN [sh EXCEPT !.pts[2] = newpos]
            ELSE sh
      [] OTHER ->
            IF 0 <= idx /\ idx < Len(sh.pts) THEN [sh EXCEPT !.pts[idx + 1] = newpos]
            ELSE sh

\* positions of the control points, in control-point order; they follow the
\* defining points of the shape
ControlPointPositions(sh) == sh.pts

\* the shape list by value: kind and geometry of each entry, in list order
ShapeValue(sh) == [kind |-> sh.kind, pts |-> sh.pts]
ShapeListValue(h, shapes) == [i \in 1..Len(shapes) |-> ShapeValue(h[shapes[i]])]

\* ------------------------------------------------------------- data store
\* w is the record [heap, shapes, selected, hovered, temp, tool]; f tells
\* whether publishing shape-added / shape-removed raises.
World == [heap |-> heap, shapes |-> dm_shapes, selected |-> selected,
          hovered |-> hovered, temp |-> temp_shape, tool |-> current_tool,
          color |-> current_color, width |-> current_width]

\* an event as the data store hands it to the bus
EventOf(type, shape) == [type |-> type, shape |-> shape]

\* the events select_shape(s) publishes: the old selection is deselected
\* before the new one is selected
select_shape_events_swapped(w, s) ==
    (IF s # None /\ s # w.selected THEN << EventOf("SHAPE_SELECTED", s) >> ELSE << >>)
    \o (IF w.selected # None /\ w.selected # s
        THEN << EventOf("SHAPE_DESELECTED", w.selected) >> ELSE << >>)
select_shape_events(w, s) ==
    (IF w.selected # None /\ w.selected # s
     THEN << EventOf("SHAPE_DESELECTED", w.selected) >> ELSE << >>)
    \o (IF s # None /\ s # w.selected THEN << EventOf("SHAPE_SELECTED", s) >> ELSE << >>)

add_shape_again(w, s, f) ==
    [w |-> [w EXCEPT !.shapes = Append(@, s)], raised |-> f,
     events |-> << EventOf("SHAPE_ADDED", s) >>]
add_shape(w, s, f) ==
    IF InSeq(w.shapes, s) THEN [w |-> w, raised |-> FALSE, events |-> << >>]
    ELSE [w |-> [w EXCEPT !.shapes = Append(@, s)], raised |-> f,
          events |-> << EventOf("SHAPE_ADDED", s) >>]

remove_shape_keep_hover(w, s, f) ==
    IF InSeq(w.shapes, s)
    THEN [w |-> [w EXCEPT !.shapes = SeqRemove(@, s),
                          !.selected = IF @ = s THEN None ELSE @],
          ret |-> TRUE, raised |-> f,
          events |-> (IF w.selected = s THEN select_shape_events(w, None) ELSE << >>)
                     \o << EventOf("SHAPE_REMOVED", s) >>]
    ELSE [w |-> w, ret |-> FALSE, raised |-> FALSE, events |-> << >>]
remove_shape(w, s, f) ==
    IF InSeq(w.shapes, s)
    THEN [w |-> [w EXCEPT !.shapes = SeqRemove(@, s),
                          !.selected = IF @ = s THEN None ELSE @,
                          !.hovered = IF @ = s THEN None ELSE @],
          ret |-> TRUE, raised |-> f,
          events |-> (IF w.selected = s THEN select_shape_events(w, None) ELSE << >>)
                     \o << EventOf("SHAPE_REMOVED", s) >>]
    ELSE [w |-> w, ret |-> FALSE, raised |-> FALSE, events |-> << >>]

clear_all_shapes(w, f) ==
    [w |-> [w EXCEPT !.shapes = << >>, !.selected = None, !.hovered = None, !.temp = None],
     raised |-> f /\ w.shapes # << >>]

\* select_shape: the renderer's handlers of shape-selected / deselected
\* do not touch the data store
select_shape(w, s) == [w EXCEPT !.selected = s]

\* ShapeFactory.create_from_dict: an import entry is [kind, pts, enc], enc
\* being the encoding of its points ("tuple" or "dict").  Polygon vertices
\* are read with v.get('x'), which raises on a tuple; the factory then
\* returns None.
NoShape == Shape("None", << >>)
create_from_dict_any_encoding(d) ==
    IF \/ EnumOf(DrawTypes, d.shape_type) \in {"invalid", "NONE"}
       \/ EnumOf(DrawColors, d.color) = "invalid"
       \/ EnumOf(PenWidths, d.pen_width) = "invalid"
    THEN NoShape
    ELSE NewShape(ShapeKinds[d.shape_type], d.pts, EnumOf(DrawColors, d.color),
                  EnumOf(PenWidths, d.pen_width), << >>)
create_from_dict(d) ==
    IF \/ EnumOf(DrawTypes, d.shape_type) \in {"invalid", "NONE"}
       \/ EnumOf(DrawColors, d.color) = "invalid"
       \/ EnumOf(PenWidths, d.pen_width) = "invalid"
       \/ (EnumOf(DrawTypes, d.shape_type) = "POLYGON" /\ d.enc = "tuple" /\ d.pts # << >>)
    THEN NoShape
    ELSE NewShape(ShapeKinds[d.shape_type], d.pts, EnumOf(DrawColors, d.color),
                  EnumOf(PenWidths, d.pen_width), << >>)

\* an import entry with the default colour and pen width
ShapeData(shape_type, pts, enc) ==
    [shape_type |-> shape_type, color |-> 1, pen_width |-> 2, pts |-> pts, enc |-> enc]

\* BaseShape.to_dict with the variant's fields: the points go out as tuples
to_dict(sh) ==
    [shape_type |-> CHOOSE v \in 1..Len(ShapeKinds) : ShapeKinds[v] = sh.kind,
     color |-> EnumValue(DrawColors, sh.color),
     pen_width |-> EnumValue(PenWidths, sh.pen_width),
     pts |-> sh.pts, enc |-> "tuple"]

\* ------------------------------------------------------------- operations
\* One record shape for every operation class; the fields an operation
\* class does not have keep their default.
NewOp(type, id, ss) ==
    [type |-> type, id |-> id, shapes |-> ss, offset |-> <<0, 0>>, cp |-> 0,
     old_position |-> NoPos, new_position |-> NoPos,
     executed |-> FALSE, already_executed |-> FALSE,
     import_data |-> [shapes |-> << >>, settings |-> "none"],
     original_shapes |-> << >>, original_tool |-> "POINT", imported_shapes |-> << >>]

CreateOperation(id, s) == NewOp("Create", id, << s >>)
DeleteOperation(id, ss) == NewOp("Delete", id, ss)
MoveOperation(id, ss, off, already) ==
    [NewOp("Move", id, ss) EXCEPT !.offset = off, !.already_executed = already]
ScaleOperation(id, s, cpIdx, oldp, newp, already) ==
    [NewOp("Scale", id, << s >>) EXCEPT !.cp = cpIdx, !.old_position = oldp,
                                        !.new_position = newp, !.already_executed = already]
ImportOperation(id, data) == [NewOp("Import", id, << >>) EXCEPT !.import_data = data]

RECURSIVE RemoveLoop(_, _, _, _)
RemoveLoop(w, ss, i, f) ==
    IF i > Len(ss) THEN [w |-> w, raised |-> FALSE]
    ELSE LET r == remove_shape(w, ss[i], f)
         IN IF r.raised THEN [w |-> r.w, raised |-> TRUE]
            ELSE RemoveLoop(r.w, ss, i + 1, f)

RECURSIVE AddLoop(_, _, _, _)
AddLoop(w, ss, i, f) ==
    IF i > Len(ss) THEN [w |-> w, raised |-> FALSE]
    ELSE LET r == add_shape(w, ss[i], f)
         IN IF r.raised THEN [w |-> r.w, raised |-> TRUE]
            ELSE AddLoop(r.w, ss, i + 1, f)

MoveShapes(h, ss, off) ==
    [id \in 1..Len(h) |-> IF InSeq(ss, id) THEN move_by(h[id], off) ELSE h[id]]

\* MoveOperation._do_execute / ScaleOperation._do_execute
DoExecute(op, w) ==
    IF op.type = "Move"
    THEN [w EXCEPT !.heap = MoveShapes(@, op.shapes, op.offset)]
    ELSE [w EXCEPT !.heap[op.shapes[1]] = scale_by_control_point(@, op.cp, op.new_position)]

\* MoveOperation._do_undo / ScaleOperation._do_undo
DoUndo(op, w) ==
    IF op.type = "Move"
    THEN [w EXCEPT !.heap = MoveShapes(@, op.shapes, PNeg(op.offset))]
    ELSE [w EXCEPT !.heap[op.shapes[1]] = scale_by_control_point(@, op.cp, op.old_position)]

\* PreviewOperation._execute_with_preview_check
ExecuteWithPreviewCheckAlways(op, w) == DoExecute(op, w)
ExecuteWithPreviewCheck(op, w) == IF op.already_executed THEN w ELSE DoExecute(op, w)

\* the function installed by set_execute_function: [result, raised, w]
ExecuteFunc(op, w, f) ==
    CASE op.type = "Create" ->
            LET r == add_shape(w, op.shapes[1], f)
            IN [result |-> TRUE, raised |-> r.raised, w |-> r.w]
      [] op.type = "Delete" ->
            LET r == RemoveLoop(w, op.shapes, 1, f)
            IN [result |-> TRUE, raised |-> r.raised, w |-> r.w]
      [] OTHER -> [result |-> TRUE, raised |-> FALSE, w |-> ExecuteWithPreviewCheck(op, w)]

\* the function installed by set_undo_function
UndoFunc(op, w, f) ==
    CASE op.type = "Create" ->
            LET r == remove_shape(w, op.shapes[1], f)
            IN [result |-> r.ret, raised |-> r.raised, w |-> r.w]
      [] op.type = "Delete" ->
            LET r == AddLoop(w, op.shapes, 1, f)
            IN [result |-> TRUE, raised |-> r.raised, w |-> r.w]
      [] OTHER -> [result |-> TRUE, raised |-> FALSE, w |-> DoUndo(op, w)]

\* the function installed by set_redo_function (_redo_always for previews)
RedoFunc(op, w, f) ==
    IF op.type \in {"Create", "Delete"} THEN ExecuteFunc(op, w, f)
    ELSE [result |-> TRUE, raised |-> FALSE, w |-> DoExecute(op, w)]

\* StatefulOperation.execute / undo / redo: [ok, op, w].  An exception of
\* the installed function is caught and reported as False.
StatefulExecute_again(op, w, f) ==
    LET Done(r, ok) == [ok |-> ok, op |-> [op EXCEPT !.executed = ok], w |-> r.w]
        Caught(r) == Done(r, ~r.raised /\ r.result)
    IN Caught(ExecuteFunc(op, w, f))
StatefulExecute(op, w, f) ==
    LET Done(r, ok) == [ok |-> ok, op |-> [op EXCEPT !.executed = ok], w |-> r.w]
        Caught(r) == Done(r, ~r.raised /\ r.result)
    IN IF ~op.executed THEN Caught(ExecuteFunc(op, w, f))
       ELSE [ok |-> FALSE, op |-> op, w |-> w]

StatefulUndo(op, w, f) ==
    LET Done(r, ok) == [ok |-> ok, op |-> [op EXCEPT !.executed = ~ok], w |-> r.w]
        Caught(r) == Done(r, ~r.raised /\ r.result)
    IN IF op.executed THEN Caught(UndoFunc(op, w, f))
       ELSE [ok |-> FALSE, op |-> op, w |-> w]

StatefulRedo(op, w, f) ==
    LET Done(r, ok) == [ok |-> ok, op |-> [op EXCEPT !.executed = ok], w |-> r.w]
        Caught(r) == Done(r, ~r.raised /\ r.result)
    IN IF ~op.executed THEN Caught(RedoFunc(op, w, f))
       ELSE [ok |-> FALSE, op |-> op, w |-> w]

\* ImportOperation: the loop over import_data['shapes']
RECURSIVE ImportLoop(_, _, _, _, _)
ImportLoop(w, entries, i, f, imported) ==
    LET id == Len(w.heap) + 1
        Added(r) ==
            IF r.raised THEN [w |-> r.w, raised |-> TRUE, imported |-> imported]
            ELSE ImportLoop(r.w, entries, i + 1, f, Append(imported, id))
        Entry(shape) ==
            IF shape = NoShape THEN ImportLoop(w, entries, i + 1, f, imported)
            ELSE Added(add_shape([w EXCEPT !.heap = Append(@, shape)], id, f))
    IN IF i > Len(entries) THEN [w |-> w, raised |-> FALSE, imported |-> imported]
       ELSE Entry(create_from_dict(entries[i]))

ImportExecute(op, w, f) ==
    LET op1 == [op EXCEPT !.original_shapes = w.shapes, !.original_tool = w.tool]
        st == op.import_data.settings
        Imported(l, op2) ==
            IF l.raised \/ st = "bad" THEN [ok |-> FALSE, op |-> op2, w |-> l.w]
            ELSE [ok |-> TRUE, op |-> op2,
                  w |-> [l.w EXCEPT !.tool = IF st = "none" THEN @ ELSE st]]
        Loaded(l) == Imported(l, [op1 EXCEPT !.imported_shapes = l.imported])
        Cleared(c) ==
            IF c.raised THEN [ok |-> FALSE, op |-> op1, w |-> c.w]
            ELSE Loaded(ImportLoop(c.w, op.import_data.shapes, 1, f, op1.imported_shapes))
    IN Cleared(clear_all_shapes(w, f))

ImportUndo(op, w, f) ==
    LET Restored(a) ==
            IF a.raised THEN [ok |-> FALSE, op |-> op, w |-> a.w]
            ELSE [ok |-> TRUE, op |-> [op EXCEPT !.imported_shapes = << >>],
                  w |-> [a.w EXCEPT !.tool = op.original_tool]]
        Cleared(c) ==
            IF c.raised THEN [ok |-> FALSE, op |-> op, w |-> c.w]
            ELSE Restored(AddLoop(c.w, op.original_shapes, 1, f))
    IN Cleared(clear_all_shapes(w, f))

\* operation.execute() / undo() / redo() by operation class
OpExecute(op, w, f) ==
    IF op.type = "Import" THEN ImportExecute(op, w, f) ELSE StatefulExecute(op, w, f)
OpUndo(op, w, f) ==
    IF op.type = "Import" THEN ImportUndo(op, w, f) ELSE StatefulUndo(op, w, f)
OpRedo(op, w, f) ==
    IF op.type = "Import" THEN ImportExecute(op, w, f) ELSE StatefulRedo(op, w, f)

\* ---------------------------------------------------------- command stack
can_undo(hist, ci) == ci >= 0 /\ ci < Len(hist)
can_redo(hist, ci) == ci + 1 < Len(hist)

\* OperationManager.execute_operation: [ok, hist, ci, w]
execute_operation_keep_tail(hist, ci, op, w, f) ==
    LET Executed(r) ==
            IF r.ok
            THEN [ok |-> TRUE, hist |-> Append(hist, r.op), ci |-> Len(hist), w |-> r.w]
            ELSE [ok |-> FALSE, hist |-> hist, ci |-> ci, w |-> r.w]
    IN Executed(OpExecute(op, w, f))
execute_operation(hist, ci, op, w, f) ==
    LET kept == IF ci < Len(hist) - 1 THEN SubSeq(hist, 1, ci + 1) ELSE hist
        Executed(r) ==
            IF r.ok
            THEN [ok |-> TRUE, hist |-> Append(kept, r.op), ci |-> Len(kept), w |-> r.w]
            ELSE [ok |-> FALSE, hist |-> hist, ci |-> ci, w |-> r.w]
    IN Executed(OpExecute(op, w, f))

\* OperationManager.undo: [ok, hist, ci, w]
undo_always_steps(hist, ci, w, f) ==
    LET Undone(r) ==
            [ok |-> r.ok, hist |-> [hist EXCEPT ![ci + 1] = r.op], ci |-> ci - 1, w |-> r.w]
    IN IF ~can_undo(hist, ci) THEN [ok |-> FALSE, hist |-> hist, ci |-> ci, w |-> w]
       ELSE Undone(OpUndo(hist[ci + 1], w, f))
undo(hist, ci, w, f) ==
    LET Undone(r) ==
            [ok |-> r.ok, hist |-> [hist EXCEPT ![ci + 1] = r.op],
             ci |-> IF r.ok THEN ci - 1 ELSE ci, w |-> r.w]
    IN IF ~can_undo(hist, ci) THEN [ok |-> FALSE, hist |-> hist, ci |-> ci, w |-> w]
       ELSE Undone(OpUndo(hist[ci + 1], w, f))

\* OperationManager.redo: [ok, hist, ci, w]
redo(hist, ci, w, f) ==
    LET Redone(r) ==
            [ok |-> r.ok, hist |-> [hist EXCEPT ![ci + 2] = r.op],
             ci |-> IF r.ok THEN ci + 1 ELSE ci, w |-> r.w]
    IN IF ~can_redo(hist, ci) THEN [ok |-> FALSE, hist |-> hist, ci |-> ci, w |-> w]
       ELSE Redone(OpRedo(hist[ci + 2], w, f))

\* OperationManager.clear_history: [hist, ci]
clear_history_keep_index(hist, ci) == [hist |-> << >>, ci |-> ci]
clear_history(hist, ci) == [hist |-> << >>, ci |-> -1]

\* the identities of the operations in a history
OpIds(hist) == [i \in 1..Len(hist) |-> hist[i].id]

\* --------------------------------------------------- bookkeeping of runs
\* A run is a sequence of operations executed one after the other, then
\* undone one after the other, then redone one after the other.  preVal[k]
\* is the shape list value before the k-th history entry was applied.
Ghost == [lastCall |-> lastCall, preVal |-> preVal,
          cleanFrom |-> cleanFrom, runPhase |-> runPhase, postVal |-> postVal]

\* ok: what the manager returned; step: what the operation's own step
\* returned ("none" when no step was made); dropped: the number of history
\* entries behind current_index before the call
Call(kind, ok, opId, step) ==
    [kind |-> kind, ok |-> ok, op |-> opId, step |-> step,
     dropped |-> Len(operation_history) - (current_index + 1)]
StepResult(b) == IF b THEN "true" ELSE "false"

\* the bookkeeping of a run is dropped as soon as the run is over
Settle(g) ==
    IF g.runPhase = "exec" THEN [g EXCEPT !.postVal = << >>]
    ELSE IF g.runPhase = "undo" THEN g
    ELSE [g EXCEPT !.preVal = << >>, !.cleanFrom = 1,
                   !.postVal = IF g.runPhase = "redo" THEN @ ELSE << >>]

\* after execute_operation; pre is the shape list value before the call.
\* preVal[k] is the value before history entry cleanFrom + k - 1 was executed.
GhostExecute(g, r, opId, pre, step) ==
    Settle(IF r.ok
           THEN [g EXCEPT !.lastCall = Call("execute", TRUE, opId, step),
                          !.preVal = IF g.runPhase = "exec" THEN Append(@, pre)
                                     ELSE << pre >>,
                          !.cleanFrom = IF g.runPhase = "exec" THEN @ ELSE Len(r.hist),
                          !.runPhase = "exec"]
           ELSE [g EXCEPT !.lastCall = Call("execute", FALSE, opId, step),
                          !.runPhase = "off"])

\* after undo(); cur is the shape list value before the call
GhostUndo(g, hist, ci, r, cur, f, step) ==
    LET inRun == g.runPhase \in {"exec", "undo"} /\ ci + 1 >= g.cleanFrom
    IN Settle([g EXCEPT
                 !.lastCall = Call("undo", r.ok, 0, step),
                 !.postVal = IF r.ok /\ inRun /\ g.runPhase = "exec" THEN cur ELSE @,
                 !.runPhase = IF r.ok THEN (IF inRun THEN "undo" ELSE "off")
                              ELSE IF inRun /\ can_undo(hist, ci) /\ ~f THEN "undoFailed"
                              ELSE IF can_undo(hist, ci) THEN "off" ELSE @])

\* after redo()
GhostRedo(g, hist, ci, r, f, step) ==
    LET inRun == g.runPhase \in {"undo", "redo"}
    IN Settle([g EXCEPT
                 !.lastCall = Call("redo", r.ok, 0, step),
                 !.runPhase = IF r.ok THEN (IF inRun THEN "redo" ELSE "off")
                              ELSE IF inRun /\ can_redo(hist, ci) /\ ~f THEN "redoFailed"
                              ELSE IF can_redo(hist, ci) THEN "off" ELSE @])

\* liveLeft: phase "executed" after execute_operation took the operation of
\* a live drag, "undone" after the undo() that follows, "redone" after the
\* redo() that follows that; any other call ends the observation
NoLive == [phase |-> "none", op |-> 0, heap |-> << >>]
LiveExecuted(op, w, r) ==
    IF track = "call" /\ r.ok /\ op.already_executed /\ ~op.executed
       /\ op.type \in {"Move", "Scale"}
    THEN [phase |-> "executed", op |-> op.id, heap |-> w.heap]
    ELSE NoLive
LiveUndone(hist, ci, r) ==
    IF liveLeft.phase = "executed" /\ r.ok /\ hist[ci + 1].id = liveLeft.op
    THEN [liveLeft EXCEPT !.phase = "undone"]
    ELSE NoLive
LiveRedone(hist, ci, r) ==
    IF liveLeft.phase = "undone" /\ r.ok /\ hist[ci + 2].id = liveLeft.op
    THEN [liveLeft EXCEPT !.phase = "redone"]
    ELSE NoLive

\* a change of the shapes that is not an operation of the command stack
GhostBreak(g, kind) == Settle([g EXCEPT !.lastCall = Call(kind, TRUE, 0, "none"),
                                        !.runPhase = "off"])

SetWorld(w) ==
    /\ heap' = w.heap
    /\ dm_shapes' = w.shapes
    /\ selected' = w.selected
    /\ hovered' = w.hovered
    /\ temp_shape' = w.temp
    /\ current_tool' = w.tool
    /\ current_color' = w.color
    /\ current_width' = w.width

\* track selects what is recorded about the calls: "call" records the last
\* call and its result, "run" records the values of an execute/undo/redo run
SetGhost(g) ==
    /\ lastCall' = IF track = "call" THEN g.lastCall ELSE lastCall
    /\ preVal' = IF track = "run" THEN g.preVal ELSE preVal
    /\ cleanFrom' = IF track = "run" THEN g.cleanFrom ELSE cleanFrom
    /\ runPhase' = IF track = "run" THEN g.runPhase ELSE runPhase
    /\ postVal' = IF track = "run" THEN g.postVal ELSE postVal
    /\ track' = track

SetStack(r) ==
    /\ operation_history' = r.hist
    /\ current_index' = r.ci

\* one more operation object may be constructed
OpRoom == nextOp <= MaxOps

\* the event kinds the data store publishes, and EventType.value
EventTypes == { "SHAPE_ADDED", "SHAPE_REMOVED", "SHAPE_SELECTED", "SHAPE_DESELECTED" }
EventTypeValue(type) ==
    CASE type = "SHAPE_ADDED" -> "shape_added"
      [] type = "SHAPE_REMOVED" -> "shape_removed"
      [] type = "SHAPE_SELECTED" -> "shape_selected"
      [] type = "SHAPE_DESELECTED" -> "shape_deselected"

\* the data of an import: the shape entries and the settings, NoSetting
\* standing for a key the settings do not have
NoSetting == -1
Settings(tool, color, width) ==
    [current_tool |-> tool, current_color |-> color, current_width |-> width]
NoData == [shapes |-> << >>, settings |-> Settings(NoSetting, NoSetting, NoSetting)]

\* a hit test that found nothing
NoHit == [type |-> "none", target |-> None, shape |-> None]

\* a call of the data store or of a shape: its name, its shape, data,
\* position or z-order argument, what it returned and whether it raised
DataCall(kind, shape, ret, raised) ==
    [kind |-> kind, shape |-> shape, ret |-> ret, raised |-> raised,
     data |-> NoData, pos |-> NoPos, hit |-> NoHit, z |-> << >>]
\* no call of the data store, no publish yet
NoCall == DataCall("none", None, FALSE, FALSE)
NoDispatch == [type |-> "none", invoked |-> << >>, error |-> "none",
               event_type |-> "none", raiser |-> None]

InitBase ==
    /\ heap = << >>
    /\ dm_shapes = << >>
    /\ selected = None
    /\ hovered = None
    /\ temp_shape = None
    /\ current_tool = "POINT"
    /\ current_color = "RED"
    /\ current_width = "MEDIUM"
    /\ operation_history = << >>
    /\ current_index = -1
    /\ nextOp = 1
    /\ lastCall = Call("none", TRUE, 0, "none")
    /\ preVal = << >>
    /\ cleanFrom = 1
    /\ runPhase = "exec"
    /\ postVal = << >>
    /\ current_state = "IDLE"
    /\ drag_start_pos = NoPos
    /\ drag_start_shape = None
    /\ drag_start_control_point = NoCp
    /\ move_start_mouse_pos = NoPos
    /\ move_start_shape_pos = [num |-> NoPos, den |-> 1]
    /\ scale_start_pos = NoPos
    /\ polygon_vertices = << >>
    /\ temp_polygon = None
    /\ left_button_pressed = FALSE
    /\ mouse_dragging = FALSE
    /\ right_button_pressed = FALSE
    /\ middle_button_pressed = FALSE
    /\ _shape_graphics_items = {}
    /\ snap_to_grid = FALSE
    /\ gesture = [kind |-> "none", phase |-> "none", ev |-> "none", anchor |-> NoPos,
                  last |-> NoPos, up |-> NoPos, moved |-> FALSE, clean |-> FALSE,
                  shape |-> None, start |-> << >>, hist |-> << >>, ok |-> FALSE]
    /\ liveLeft = NoLive
    /\ events = 0
    /\ dataCall = NoCall
    /\ published = << >>
    /\ subscribers = [k \in EventTypes |-> << >>]
    /\ dispatch = NoDispatch

Init == InitBase /\ track = "call"
InitRun == InitBase /\ track = "run"

\* ------------------------------------------- calls into the command stack
\* Inputs of the collaborator calls.
\* Runs of successful calls are explored over every shape of the list and
\* two kinds of shape; the calls that can fail are explored over the last
\* shape of the list and one kind.
ShapeChoices ==
    IF track = "run"
    THEN { Shape("Point", << <<3, 0>> >>), Shape("Ellipse", << <<0, 0>>, <<40, 30>> >>) }
    ELSE { Shape("Ellipse", << <<0, 0>>, <<40, 30>> >>) }
Targets == IF track = "run" THEN 1..Len(dm_shapes) ELSE { Len(dm_shapes) } \ {0}
OffsetChoices == { <<3, 0>> }
ScaleChoices == { <<40, 0>> }
ImportChoices ==
    { [shapes |-> << ShapeData(1, << <<40, 30>> >>, "tuple") >>,
       settings |-> "ELLIPSE"] }
    \cup
    ( IF track = "run"
      THEN { [shapes |-> << ShapeData(1, << <<3, 0>> >>, "dict"),
                            ShapeData(1, << <<40, 0>> >>, "dict") >>,
              settings |-> "none"] }
      ELSE { [shapes |-> << ShapeData(1, << <<3, 0>> >>, "dict") >>,
              settings |-> "bad"] } )

\* f = TRUE: a handler subscribed to shape-added and shape-removed raises
\* during this call
Faults == IF track = "call" THEN BOOLEAN ELSE { FALSE }

unchangedUI ==
    UNCHANGED << smVars, inputVars, snap_to_grid, gesture, events, callVars, busVars >>

\* a Move or Scale operation is either executed by the command stack or made
\* by a collaborator that has applied it to the shapes during a live drag
Previews == BOOLEAN

\* the common tail of a call execute_operation(op) made by a collaborator
CallExecute(op, w) ==
    \E f \in Faults :
    LET r == execute_operation(operation_history, current_index, op, w, f)
    IN /\ SetWorld(r.w)
       /\ SetStack(r)
       /\ nextOp' = nextOp + 1
       /\ SetGhost(GhostExecute(Ghost, r, op.id, ShapeListValue(heap, dm_shapes),
                                StepResult(OpExecute(op, w, f).ok)))
       /\ liveLeft' = LiveExecuted(op, w, r)
       /\ unchangedUI

\* execute_operation(CreateOperation(shape)) with a new shape
ExecCreate ==
    \E sh \in ShapeChoices :
        /\ OpRoom
        /\ Len(heap) < MaxShapes
        /\ CallExecute(CreateOperation(nextOp, Len(heap) + 1),
                       [World EXCEPT !.heap = Append(@, sh)])

\* execute_operation(DeleteOperation(shapes)): one shape of the list, or all
ExecDelete ==
    /\ OpRoom
    /\ dm_shapes # << >>
    /\ \E ss \in { << dm_shapes[i] >> : i \in Targets } \cup { dm_shapes } :
          CallExecute(DeleteOperation(nextOp, ss), World)

\* execute_operation(MoveOperation([shape], offset))
ExecMove ==
    \E i \in Targets, off \in OffsetChoices, live \in Previews :
        LET s == dm_shapes[i]
        IN /\ OpRoom
           /\ CallExecute(MoveOperation(nextOp, << s >>, off, live),
                          IF live THEN [World EXCEPT !.heap[s] = move_by(@, off)]
                          ELSE World)

\* execute_operation(ScaleOperation(shape, control_point, old, new))
ExecScale ==
    \E i \in Targets, newp \in ScaleChoices, live \in Previews :
        LET s == dm_shapes[i]
            cps == ControlPointPositions(heap[s])
        IN \E c \in 1..Len(cps) :
              /\ OpRoom
              /\ newp # cps[c]
              /\ CallExecute(ScaleOperation(nextOp, s, c - 1, cps[c], newp, live),
                             IF live
                             THEN [World EXCEPT
                                     !.heap[s] = scale_by_control_point(@, c - 1, newp)]
                             ELSE World)

\* execute_operation(ImportOperation(data, ...))
ExecImport ==
    \E data \in ImportChoices :
        /\ OpRoom
        /\ Len(heap) + Len(data.shapes) <= MaxShapes
        /\ CallExecute(ImportOperation(nextOp, data), World)

\* execute_operation(op) with a stateful operation object that is already
\* in the history (an operation that was not made by a live drag: handing
\* such a one in again moves its shapes further at every undo)
ReExecute ==
    \E k \in 1..Len(operation_history) :
        /\ operation_history[k].type # "Import"
        /\ ~operation_history[k].already_executed
        /\ \E f \in Faults :
           LET op == operation_history[k]
               r == execute_operation(operation_history, current_index, op, World, f)
           IN /\ SetWorld(r.w)
              /\ SetStack(r)
              /\ SetGhost([GhostBreak(Ghost, "execute") EXCEPT
                             !.lastCall = Call("execute", r.ok, op.id,
                                               StepResult(OpExecute(op, World, f).ok))])
              /\ liveLeft' = NoLive
              /\ UNCHANGED nextOp
              /\ unchangedUI

\* OperationManager.undo()
Undo ==
    \E f \in Faults :
    LET r == undo(operation_history, current_index, World, f)
    IN /\ SetWorld(r.w)
       /\ SetStack(r)
       /\ SetGhost(GhostUndo(Ghost, operation_history, current_index, r,
                             ShapeListValue(heap, dm_shapes), f,
                             IF can_undo(operation_history, current_index)
                             THEN StepResult(OpUndo(operation_history[current_index + 1],
                                                    World, f).ok)
                             ELSE "none"))
       /\ liveLeft' = LiveUndone(operation_history, current_index, r)
       /\ UNCHANGED nextOp
       /\ unchangedUI

\* redoing an import constructs its shapes anew: there must be room for them
RedoRoom ==
    can_redo(operation_history, current_index)
        => LET op == operation_history[current_index + 2]
           IN op.type = "Import" => Len(heap) + Len(op.import_data.shapes) <= MaxShapes

\* OperationManager.redo()
Redo ==
    \E f \in Faults :
    LET r == redo(operation_history, current_index, World, f)
    IN /\ RedoRoom
       /\ SetWorld(r.w)
       /\ SetStack(r)
       /\ SetGhost(GhostRedo(Ghost, operation_history, current_index, r, f,
                             IF can_redo(operation_history, current_index)
                             THEN StepResult(OpRedo(operation_history[current_index + 2],
                                                    World, f).ok)
                             ELSE "none"))
       /\ liveLeft' = LiveRedone(operation_history, current_index, r)
       /\ UNCHANGED nextOp
       /\ unchangedUI

\* OperationManager.clear_history()
ClearHistory ==
    /\ SetStack(clear_history(operation_history, current_index))
    /\ SetGhost(Settle([Ghost EXCEPT !.lastCall = Call("clear", TRUE, 0, "none"),
                                     !.preVal = << >>, !.cleanFrom = 1,
                                     !.runPhase = "exec"]))
    /\ liveLeft' = NoLive
    /\ UNCHANGED << dataVars, nextOp >>
    /\ unchangedUI

\* the collaborator call remove_shape(shape), outside the command stack
DirectRemoveShape ==
    \E i \in 1..Len(dm_shapes), f \in Faults :
        LET r == remove_shape(World, dm_shapes[i], f)
        IN /\ SetWorld(r.w)
           /\ SetGhost(GhostBreak(Ghost, "remove_shape"))
           /\ liveLeft' = NoLive
           /\ UNCHANGED stackVars
           /\ unchangedUI

NextOps ==
    \/ ExecCreate
    \/ ExecDelete
    \/ ExecMove
    \/ ExecScale
    \/ ExecImport
    \/ ReExecute
    \/ Undo
    \/ Redo
    \/ ClearHistory
    \/ DirectRemoveShape

SpecOps == Init /\ [][NextOps]_vars

\* runs of successful calls: operations are executed, undone and redone
NextRun ==
    \/ ExecCreate
    \/ ExecDelete
    \/ ExecMove
    \/ ExecScale
    \/ ExecImport
    \/ Undo
    \/ Redo
    \/ ClearHistory

SpecRun == InitRun /\ [][NextRun]_vars

\* ------------------------------------------------------------- hit testing
GRID_SIZE == 10

\* Python round(n / GRID_SIZE): the nearest integer, a tie going to the even one
RoundDiv(n) ==
    LET q == n \div GRID_SIZE
        r == n % GRID_SIZE
    IN IF 2 * r < GRID_SIZE THEN q
       ELSE IF 2 * r > GRID_SIZE THEN q + 1
       ELSE IF q % 2 = 0 THEN q ELSE q + 1

\* GeometryUtils.snap_to_grid(point, grid_size)
snap_to_grid_point(p) == << RoundDiv(p[1]) * GRID_SIZE, RoundDiv(p[2]) * GRID_SIZE >>

\* GeometryUtils.point_to_line_distance(p, a, b) <= tol, the projection
\* parameter t clamped to [0, 1]
point_to_line_distance_le(p, a, b, tol) ==
    LET lx == b[1] - a[1]
        ly == b[2] - a[2]
        px == p[1] - a[1]
        py == p[2] - a[2]
        L == lx * lx + ly * ly
        dot == px * lx + py * ly
    IN IF L = 0 THEN px * px + py * py <= tol * tol
       ELSE IF dot <= 0 THEN DistSq(p, a) <= tol * tol
       ELSE IF dot >= L THEN DistSq(p, b) <= tol * tol
       ELSE L * (px * px + py * py) - dot * dot <= tol * tol * L

\* the test "near the outline of the bounds rectangle"
bounds_outline(sh, p, tol) ==
    LET left == Min2(sh.pts[1][1], sh.pts[2][1])
        right == Max2(sh.pts[1][1], sh.pts[2][1])
        top == Min2(sh.pts[1][2], sh.pts[2][2])
        bottom == Max2(sh.pts[1][2], sh.pts[2][2])
    IN \/ /\ left - tol <= p[1] /\ p[1] <= right + tol
          /\ (Abs(p[2] - top) <= tol \/ Abs(p[2] - bottom) <= tol)
       \/ /\ top - tol <= p[2] /\ p[2] <= bottom + tol
          /\ (Abs(p[1] - left) <= tol \/ Abs(p[1] - right) <= tol)

\* EllipseShape.contains_point_on_boundary.  RX, RY are twice the radii and
\* A, B twice the offset from the centre, so that
\*   distance = A^2/RX^2 + B^2/RY^2   and   tolerance_factor = 2 tol / min(RX, RY)
ellipse_on_boundary(sh, p, tol) ==
    LET RX == Abs(sh.pts[2][1] - sh.pts[1][1])
        RY == Abs(sh.pts[2][2] - sh.pts[1][2])
        M == Min2(RX, RY)
        A == 2 * p[1] - (sh.pts[1][1] + sh.pts[2][1])
        B == 2 * p[2] - (sh.pts[1][2] + sh.pts[2][2])
        d == M * (A * A * RY * RY + B * B * RX * RX)
        u == RX * RX * RY * RY
    IN IF RX <= 0 \/ RY <= 0 THEN bounds_outline(sh, p, tol)
       ELSE (M - 2 * tol) * u <= d /\ d <= (M + 2 * tol) * u

\* RectangleShape.contains_point_on_boundary: the outline of the rectangle
rectangle_on_boundary(sh, p, tol) == bounds_outline(sh, p, tol)

\* PolygonShape.contains_point_on_boundary
polygon_on_boundary(sh, p, tol) ==
    LET n == Len(sh.pts)
    IN /\ n >= 2
       /\ \E i \in 1..n :
             point_to_line_distance_le(p, sh.pts[i], sh.pts[(i % n) + 1], tol)

contains_point_on_boundary(sh, p, tol) ==
    CASE sh.kind = "Point" -> DistSq(p, sh.pts[1]) <= tol * tol
      [] sh.kind = "Rectangle" -> rectangle_on_boundary(sh, p, tol)
      [] sh.kind = "Ellipse" -> ellipse_on_boundary(sh, p, tol)
      [] OTHER -> polygon_on_boundary(sh, p, tol)

\* DataManager._get_control_point_at: the index of the first control point
\* of the shape within the tolerance, or NoCp
_get_control_point_at(w, pos, s) ==
    LET cps == ControlPointPositions(w.heap[s])
        tol == CONTROL_POINT_TOLERANCE * PixelSize
        near == { c \in 1..Len(cps) : DistSq(pos, cps[c]) <= tol * tol }
    IN IF near = {} THEN NoCp
       ELSE (CHOOSE c \in near : \A d \in near : c <= d) - 1

\* DataManager._get_shape_at: the topmost shape whose outline is within the
\* tolerance, or None
_get_shape_at_first(w, pos) ==
    LET tol == PIXEL_TOLERANCE * PixelSize
        on == { i \in 1..Len(w.shapes) :
                  contains_point_on_boundary(w.heap[w.shapes[i]], pos, tol) }
    IN IF on = {} THEN None
       ELSE w.shapes[CHOOSE i \in on : \A j \in on : i <= j]
_get_shape_at(w, pos) ==
    LET tol == PIXEL_TOLERANCE * PixelSize
        on == { i \in 1..Len(w.shapes) :
                  contains_point_on_boundary(w.heap[w.shapes[i]], pos, tol) }
    IN IF on = {} THEN None
       ELSE w.shapes[CHOOSE i \in on : \A j \in on : j <= i]

\* DataManager.get_hit_target: control points of the selected shape first
get_hit_target(w, pos) ==
    LET Hit(cp, shape) ==
            IF cp # NoCp THEN [type |-> "control_point", target |-> cp, shape |-> w.selected]
            ELSE IF shape # None THEN [type |-> "shape", target |-> shape, shape |-> shape]
            ELSE NoHit
    IN Hit(IF w.selected # None THEN _get_control_point_at(w, pos, w.selected) ELSE NoCp,
           _get_shape_at(w, pos))

\* get_center as the fraction num / den; None is NoRef
NoRef == [num |-> NoPos, den |-> 1]
RECURSIVE SumPts(_, _)
SumPts(pts, i) == IF i > Len(pts) THEN <<0, 0>> ELSE PAdd(pts[i], SumPts(pts, i + 1))
get_center(sh) ==
    CASE sh.kind = "Point" -> [num |-> sh.pts[1], den |-> 1]
      [] sh.kind \in {"Rectangle", "Ellipse"} ->
            [num |-> PAdd(sh.pts[1], sh.pts[2]), den |-> 2]
      [] OTHER -> IF sh.pts = << >> THEN [num |-> <<0, 0>>, den |-> 1]
                  ELSE [num |-> SumPts(sh.pts, 1), den |-> Len(sh.pts)]
TruthyRef(r) == Truthy(r.num)

\* Shape.set_center(ref + total): move_by(ref + total - get_center()); the
\* model follows the drag while this offset is integral
CenterOffset(sh, ref, total) ==
    LET cur == get_center(sh)
        diff == PSub(ref.num, cur.num)
    IN [exact |-> cur.den = ref.den /\ diff[1] % cur.den = 0 /\ diff[2] % cur.den = 0,
        offset |-> PAdd(total, << diff[1] \div cur.den, diff[2] \div cur.den >>)]

\* ------------------------------------------------- interaction: handlers
\* The handlers are functions of the system record s = [w, hist, ci,
\* nextOp, sm]: the data store, the command stack and the fields of the
\* StateManager.  No subscriber raises while they run.
SM == [state |-> current_state, drag_start_pos |-> drag_start_pos,
       drag_start_shape |-> drag_start_shape,
       drag_start_control_point |-> drag_start_control_point,
       move_start_mouse_pos |-> move_start_mouse_pos,
       move_start_shape_pos |-> move_start_shape_pos,
       scale_start_pos |-> scale_start_pos,
       polygon_vertices |-> polygon_vertices, temp_polygon |-> temp_polygon]
Sys == [w |-> World, hist |-> operation_history, ci |-> current_index,
        nextOp |-> nextOp, sm |-> SM]

SetSM(m) ==
    /\ current_state' = m.state
    /\ drag_start_pos' = m.drag_start_pos
    /\ drag_start_shape' = m.drag_start_shape
    /\ drag_start_control_point' = m.drag_start_control_point
    /\ move_start_mouse_pos' = m.move_start_mouse_pos
    /\ move_start_shape_pos' = m.move_start_shape_pos
    /\ scale_start_pos' = m.scale_start_pos
    /\ polygon_vertices' = m.polygon_vertices
    /\ temp_polygon' = m.temp_polygon
SetSys(s) ==
    /\ SetWorld(s.w)
    /\ SetStack(s)
    /\ nextOp' = s.nextOp
    /\ SetSM(s.sm)

\* A shape object nothing refers to any more is gone: the objects allocated
\* last are dropped from the heap while no list, slot, field or operation
\* holds them.
Referenced(s, id) ==
    \/ InSeq(s.w.shapes, id)
    \/ id \in { s.w.selected, s.w.hovered, s.w.temp, s.sm.temp_polygon, s.sm.drag_start_shape }
    \/ \E k \in 1..Len(s.hist) :
          \/ InSeq(s.hist[k].shapes, id)
          \/ InSeq(s.hist[k].original_shapes, id)
          \/ InSeq(s.hist[k].imported_shapes, id)
RECURSIVE Collect(_)
Collect(s) ==
    IF s.w.heap # << >> /\ ~Referenced(s, Len(s.w.heap))
    THEN Collect([s EXCEPT !.w.heap = SubSeq(@, 1, Len(@) - 1)])
    ELSE s

\* the objects and the vertices a step may allocate
Within(s) ==
    /\ Len(s.w.heap) <= MaxShapes
    /\ s.nextOp <= MaxOps + 1
    /\ Len(s.sm.polygon_vertices) <= MaxVertices

\* operation_manager.execute_operation(op) with a new operation object
ManagerExecute(s, op) ==
    LET Executed(r) == [s EXCEPT !.w = r.w, !.hist = r.hist, !.ci = r.ci, !.nextOp = @ + 1]
    IN Executed(execute_operation(s.hist, s.ci, op, s.w, FALSE))

\* ShapeCreationService.create_and_add_shape: sh is the new shape object
create_and_add_shape_direct(s, sh) ==
    LET id == Len(s.w.heap) + 1
        w1 == [s.w EXCEPT !.heap = Append(@, sh)]
    IN [s EXCEPT !.w = select_shape(add_shape(w1, id, FALSE).w, id)]
create_and_add_shape(s, sh) ==
    LET id == Len(s.w.heap) + 1
        s1 == ManagerExecute([s EXCEPT !.w.heap = Append(@, sh)],
                             CreateOperation(s.nextOp, id))
    IN [s1 EXCEPT !.w = select_shape(@, id)]

\* ShapeCreationService.create_temp_shape: the new object goes to the temp slot
create_temp_shape(s, sh) ==
    [s EXCEPT !.w.heap = Append(@, sh), !.w.temp = Len(s.w.heap) + 1]

\* ShapeCreationService.update_temp_shape: end_point of a rectangle or an
\* ellipse, vertices of a polygon
update_temp_shape(s, id, arg) ==
    IF s.w.heap[id].kind \in {"Rectangle", "Ellipse"}
    THEN [s EXCEPT !.w.heap[id].pts[2] = arg]
    ELSE IF s.w.heap[id].kind = "Polygon" THEN [s EXCEPT !.w.heap[id].pts = arg]
    ELSE s

\* ShapeCreationService.finish_temp_shape_creation
finish_temp_shape_creation_keep(s, id) ==
    LET s1 == ManagerExecute(s, CreateOperation(s.nextOp, id))
    IN [s1 EXCEPT !.w = select_shape(@, id)]
finish_temp_shape_creation(s, id) ==
    LET s1 == ManagerExecute(s, CreateOperation(s.nextOp, id))
    IN [s1 EXCEPT !.w = [select_shape(@, id) EXCEPT !.temp = None]]

_change_state(s, new) == [s EXCEPT !.sm.state = new]

_cleanup_temp_data(s) ==
    IF s.sm.polygon_vertices # << >> \/ s.sm.temp_polygon # None
    THEN [s EXCEPT !.sm.polygon_vertices = << >>, !.sm.temp_polygon = None,
                   !.w.temp = None]
    ELSE s

\* the reference position taken at the start of a move: get_position of a
\* point, get_center of the other variants
ReferencePosition(sh) ==
    IF sh.kind = "Point" THEN [num |-> sh.pts[1], den |-> 1] ELSE get_center(sh)

_handle_idle_mouse_press(s, pos, hit) ==
    LET c == _cleanup_temp_data(s)
    IN CASE hit.type = "control_point" ->
              [c EXCEPT !.sm.drag_start_control_point = hit.target,
                        !.sm.drag_start_shape = hit.shape,
                        !.sm.drag_start_pos = pos,
                        !.sm.scale_start_pos =
                            ControlPointPositions(c.w.heap[hit.shape])[hit.target + 1],
                        !.sm.state = "SCALING"]
         [] hit.type = "shape" ->
              [c EXCEPT !.sm.drag_start_shape = hit.target,
                        !.sm.drag_start_pos = pos,
                        !.sm.move_start_mouse_pos = pos,
                        !.sm.move_start_shape_pos = ReferencePosition(c.w.heap[hit.target]),
                        !.w = select_shape(@, hit.target),
                        !.sm.state = "MOVING"]
         [] OTHER ->
              CASE c.w.tool = "POINT" -> _change_state(c, "CREATING_POINT")
                [] c.w.tool = "RECTANGLE" ->
                     [c EXCEPT !.sm.drag_start_pos = pos, !.sm.state = "CREATING_RECT"]
                [] c.w.tool = "ELLIPSE" ->
                     [c EXCEPT !.sm.drag_start_pos = pos, !.sm.state = "CREATING_ELLIPSE"]
                [] c.w.tool = "POLYGON" ->
                     [c EXCEPT !.sm.polygon_vertices = << pos >>,
                               !.sm.temp_polygon = None,
                               !.sm.state = "CREATING_POLYGON"]
                [] OTHER -> c

_finish_creating_polygon_short(s) ==
    IF Len(s.sm.polygon_vertices) >= POLYGON_MIN_VERTICES
    THEN [create_and_add_shape(s, Shape("Polygon", s.sm.polygon_vertices)) EXCEPT
             !.sm.polygon_vertices = << >>, !.sm.temp_polygon = None,
             !.w.temp = None, !.sm.state = "IDLE"]
    ELSE s
_finish_creating_polygon(s) ==
    LET s1 == IF Len(s.sm.polygon_vertices) >= POLYGON_MIN_VERTICES
              THEN create_and_add_shape(s, Shape("Polygon", s.sm.polygon_vertices))
              ELSE s
    IN [s1 EXCEPT !.sm.polygon_vertices = << >>, !.sm.temp_polygon = None,
                  !.w.temp = None, !.sm.state = "IDLE"]

\* the click that closes the polygon: near the first vertex, three vertices
\* or more gathered
ClosesPolygon(vs, pos) ==
    /\ Len(vs) >= POLYGON_MIN_VERTICES
    /\ DistSq(pos, vs[1]) <= (POLYGON_SNAP_DISTANCE * PixelSize) * (POLYGON_SNAP_DISTANCE * PixelSize)

_handle_polygon_mouse_press_append(s, pos, hit) ==
    LET a == [s EXCEPT !.sm.polygon_vertices = Append(@, pos)]
    IN IF hit.type = "none"
       THEN IF ClosesPolygon(s.sm.polygon_vertices, pos) THEN _finish_creating_polygon(a)
            ELSE a
       ELSE _finish_creating_polygon(s)
_handle_polygon_mouse_press(s, pos, hit) ==
    IF hit.type = "none"
    THEN IF ClosesPolygon(s.sm.polygon_vertices, pos) THEN _finish_creating_polygon(s)
         ELSE [s EXCEPT !.sm.polygon_vertices = Append(@, pos)]
    ELSE _finish_creating_polygon(s)

_on_mouse_press_any(s, pos) ==
    LET Pressed(hit) ==
            IF s.sm.state = "CREATING_POLYGON"
            THEN _handle_polygon_mouse_press(s, pos, hit)
            ELSE _handle_idle_mouse_press(s, pos, hit)
    IN Pressed(get_hit_target(s.w, pos))
_on_mouse_press(s, pos) ==
    LET Pressed(hit) ==
            IF s.sm.state = "IDLE" THEN _handle_idle_mouse_press(s, pos, hit)
            ELSE IF s.sm.state = "CREATING_POLYGON"
                 THEN _handle_polygon_mouse_press(s, pos, hit)
                 ELSE s
    IN Pressed(get_hit_target(s.w, pos))

\* StateManager._handle_control_point_hover: the hovered flag of every
\* control point of the selected shape
_handle_control_point_hover(s, pos) ==
    IF s.w.selected = None THEN s
    ELSE [s EXCEPT !.w.heap[s.w.selected].cp_hovered =
                       _get_control_point_at(s.w, pos, s.w.selected)]

\* StateManager._handle_shape_hover
_handle_shape_hover(s, pos) ==
    LET current_hovered == s.w.hovered
        Lit(h1, hovered_shape) ==
            IF hovered_shape # None THEN [h1 EXCEPT ![hovered_shape].hovered = TRUE]
            ELSE h1
        Hover(hovered_shape) ==
            IF current_hovered # hovered_shape
            THEN [s EXCEPT !.w.heap = Lit(IF current_hovered # None
                                          THEN [@ EXCEPT ![current_hovered].hovered = FALSE]
                                          ELSE @,
                                          hovered_shape),
                           !.w.hovered = hovered_shape]
            ELSE s
        Over(hit) == Hover(IF hit.type = "shape" THEN hit.target ELSE None)
    IN Over(get_hit_target(s.w, pos))

\* the position a drag handler works with
SnappedPos(pos, snap) == IF snap THEN snap_to_grid_point(pos) ELSE pos

\* StateManager._handle_moving: the shape is put at its reference position
\* plus the total offset of the pointer
_handle_moving(s, pos, dragging, snap) ==
    IF ~dragging \/ s.sm.drag_start_shape = None \/ ~Truthy(s.sm.drag_start_pos) THEN s
    ELSE LET total_offset == PSub(SnappedPos(pos, snap), s.sm.drag_start_pos)
             id == s.sm.drag_start_shape
             sh == s.w.heap[id]
             ref == s.sm.move_start_shape_pos
         IN IF ~TruthyRef(ref) THEN s
            ELSE IF sh.kind = "Point"
                 THEN [s EXCEPT !.w.heap[id].pts = << PAdd(ref.num, total_offset) >>]
                 ELSE [s EXCEPT !.w.heap[id] =
                                   move_by(@, CenterOffset(sh, ref, total_offset).offset)]

\* the offset _handle_moving applies is integral
MovingExact(s, pos, dragging, snap) ==
    (/\ s.sm.state = "MOVING"
     /\ dragging
     /\ s.sm.drag_start_shape # None
     /\ Truthy(s.sm.drag_start_pos)
     /\ TruthyRef(s.sm.move_start_shape_pos)
     /\ s.w.heap[s.sm.drag_start_shape].kind # "Point")
        => CenterOffset(s.w.heap[s.sm.drag_start_shape], s.sm.move_start_shape_pos,
                        PSub(SnappedPos(pos, snap), s.sm.drag_start_pos)).exact

\* StateManager._handle_scaling
_handle_scaling(s, pos, dragging, snap) ==
    IF ~dragging \/ s.sm.drag_start_shape = None \/ s.sm.drag_start_control_point = NoCp
    THEN s
    ELSE IF Truthy(s.sm.scale_start_pos)
         THEN [s EXCEPT !.w.heap[s.sm.drag_start_shape] =
                            scale_by_control_point(@, s.sm.drag_start_control_point,
                                                   SnappedPos(pos, snap))]
         ELSE s

\* StateManager._handle_creating_rect / _handle_creating_ellipse
HandleCreating(s, pos, dragging, kind) ==
    IF ~dragging \/ ~Truthy(s.sm.drag_start_pos) THEN s
    ELSE IF s.w.temp = None \/ s.w.heap[s.w.temp].kind # kind
         THEN create_temp_shape(s, Shape(kind, << s.sm.drag_start_pos, pos >>))
         ELSE update_temp_shape(s, s.w.temp, pos)
_handle_creating_rect(s, pos, dragging) == HandleCreating(s, pos, dragging, "Rectangle")
_handle_creating_ellipse(s, pos, dragging) == HandleCreating(s, pos, dragging, "Ellipse")

\* StateManager._handle_creating_polygon: the preview polygon is the
\* gathered vertices and the pointer, the pointer snapped to the first
\* vertex when it is near it
_handle_creating_polygon(s, pos) ==
    LET vs == s.sm.polygon_vertices
        preview_pos == IF ClosesPolygon(vs, pos) THEN vs[1] ELSE pos
        temp_vertices == Append(vs, preview_pos)
    IN IF vs = << >> THEN s
       ELSE IF s.sm.temp_polygon = None
            THEN [create_temp_shape(s, Shape("Polygon", temp_vertices)) EXCEPT
                     !.sm.temp_polygon = Len(s.w.heap) + 1]
            ELSE update_temp_shape(s, s.sm.temp_polygon, temp_vertices)

_on_mouse_move(s, pos, dragging, snap) ==
    CASE s.sm.state = "IDLE" ->
            _handle_shape_hover(_handle_control_point_hover(s, pos), pos)
      [] s.sm.state = "MOVING" -> _handle_moving(s, pos, dragging, snap)
      [] s.sm.state = "SCALING" -> _handle_scaling(s, pos, dragging, snap)
      [] s.sm.state = "CREATING_RECT" -> _handle_creating_rect(s, pos, dragging)
      [] s.sm.state = "CREATING_ELLIPSE" -> _handle_creating_ellipse(s, pos, dragging)
      [] s.sm.state = "CREATING_POLYGON" -> _handle_creating_polygon(s, pos)
      [] OTHER -> s

\* AnnotationController._update_hover_state with DataManager.set_hovered_shape
_update_hover_state(s, pos) ==
    LET Over(hit) == [s EXCEPT !.w.hovered = IF hit.type = "shape" THEN hit.target ELSE None]
    IN Over(get_hit_target(s.w, pos))

_finish_creating_point(s, pos) == create_and_add_shape(s, Shape("Point", << pos >>))

\* StateManager._finish_creating_rect / _finish_creating_ellipse
FinishCreating(s, pos, kind) ==
    IF s.w.temp # None /\ s.w.heap[s.w.temp].kind = kind
    THEN finish_temp_shape_creation([s EXCEPT !.w.heap[s.w.temp].pts[2] = pos], s.w.temp)
    ELSE s
_finish_creating_rect(s, pos) == FinishCreating(s, pos, "Rectangle")
_finish_creating_ellipse(s, pos) == FinishCreating(s, pos, "Ellipse")

\* StateManager._finish_moving: the operation of the live move
_finish_moving(s, pos) ==
    LET id == s.sm.drag_start_shape
        total_mouse_offset == PSub(pos, s.sm.move_start_mouse_pos)
        s1 == IF id # None /\ Truthy(s.sm.move_start_mouse_pos)
                 /\ TruthyRef(s.sm.move_start_shape_pos)
                 /\ total_mouse_offset # <<0, 0>>
              THEN ManagerExecute(s, MoveOperation(s.nextOp, << id >>,
                                                   total_mouse_offset, TRUE))
              ELSE s
    IN [s1 EXCEPT !.sm.drag_start_shape = None, !.sm.drag_start_pos = NoPos,
                  !.sm.move_start_mouse_pos = NoPos, !.sm.move_start_shape_pos = NoRef]

\* StateManager._finish_scaling: the operation of the live scale
_finish_scaling(s, pos) ==
    LET id == s.sm.drag_start_shape
        cp == s.sm.drag_start_control_point
        final == ControlPointPositions(s.w.heap[id])[cp + 1]
        s1 == IF id # None /\ cp # NoCp /\ Truthy(s.sm.scale_start_pos)
                 /\ final # s.sm.scale_start_pos
              THEN ManagerExecute(s, ScaleOperation(s.nextOp, id, cp,
                                                    s.sm.scale_start_pos, final, TRUE))
              ELSE s
    IN [s1 EXCEPT !.sm.drag_start_shape = None, !.sm.drag_start_control_point = NoCp,
                  !.sm.drag_start_pos = NoPos, !.sm.scale_start_pos = NoPos]

\* StateManager._on_mouse_release with the left button up
_on_mouse_release_stay(s, pos) ==
    CASE s.sm.state = "CREATING_POINT" -> _finish_creating_point(s, pos)
      [] s.sm.state = "CREATING_RECT" -> _finish_creating_rect(s, pos)
      [] s.sm.state = "CREATING_ELLIPSE" -> _finish_creating_ellipse(s, pos)
      [] s.sm.state = "MOVING" -> _finish_moving(s, pos)
      [] s.sm.state = "SCALING" -> _finish_scaling(s, pos)
      [] OTHER -> s
_on_mouse_release(s, pos) ==
    LET Finished(s1) ==
            IF s1.sm.state \in {"CREATING_POINT", "CREATING_RECT", "CREATING_ELLIPSE",
                                "MOVING", "SCALING"}
            THEN _change_state(s1, "IDLE")
            ELSE s1
    IN Finished(CASE s.sm.state = "CREATING_POINT" -> _finish_creating_point(s, pos)
                  [] s.sm.state = "CREATING_RECT" -> _finish_creating_rect(s, pos)
                  [] s.sm.state = "CREATING_ELLIPSE" -> _finish_creating_ellipse(s, pos)
                  [] s.sm.state = "MOVING" -> _finish_moving(s, pos)
                  [] s.sm.state = "SCALING" -> _finish_scaling(s, pos)
                  [] OTHER -> s)

\* ------------------------------------------------ interaction: the events
\* gesture records the pointer gesture in progress: its kind (what the
\* pointer-down started), its phase ("down" until the pointer-up, "up" after
\* it, "undone" after an undo that follows at once), the last event (ev),
\* the position of the pointer-down (anchor), of the last pointer-move (last)
\* and of the pointer-up (up), whether a dragging move was seen (moved),
\* whether grid snap was off at the pointer-down (clean), the shape hit and
\* its points at the pointer-down (shape, start), the operations up to
\* current_index at the pointer-down (hist) and what undo() returned (ok).
\* Any event that does not belong to the gesture ends the record.
NoGesture ==
    [kind |-> "none", phase |-> "none", ev |-> "none", anchor |-> NoPos,
     last |-> NoPos, up |-> NoPos, moved |-> FALSE, clean |-> FALSE,
     shape |-> None, start |-> << >>, hist |-> << >>, ok |-> FALSE]

GestureKind(hit) ==
    CASE hit.type = "control_point" -> "scale"
      [] hit.type = "shape" -> "move"
      [] current_tool = "POINT" -> "point"
      [] current_tool = "RECTANGLE" -> "rect"
      [] current_tool = "ELLIPSE" -> "ellipse"
      [] OTHER -> "polygon"

GesturePress(pos) ==
    LET Down(hit) ==
            [NoGesture EXCEPT
               !.kind = GestureKind(hit), !.phase = "down", !.ev = "press",
               !.anchor = pos, !.clean = ~snap_to_grid, !.shape = hit.shape,
               !.start = IF hit.shape # None THEN heap[hit.shape].pts ELSE << >>,
               !.hist = OpIds(SubSeq(operation_history, 1, current_index + 1))]
    IN IF current_state = "IDLE" THEN Down(get_hit_target(World, pos))
       ELSE IF current_state = "CREATING_POLYGON"
            THEN [NoGesture EXCEPT !.kind = "polygon", !.phase = "down", !.ev = "press",
                                   !.last = pos]
            ELSE NoGesture

GestureMove(pos) ==
    IF current_state = "CREATING_POLYGON"
    THEN [NoGesture EXCEPT !.kind = "polygon", !.phase = "down", !.ev = "move", !.last = pos]
    ELSE IF gesture.phase = "down" /\ left_button_pressed
         THEN [gesture EXCEPT !.ev = "move", !.last = pos, !.moved = TRUE]
         ELSE NoGesture

GestureRelease(pos) ==
    IF current_state = "CREATING_POLYGON"
    THEN [NoGesture EXCEPT !.kind = "polygon", !.phase = "down", !.ev = "release"]
    ELSE IF gesture.phase = "down"
         THEN [gesture EXCEPT !.phase = "up", !.ev = "release", !.up = pos]
         ELSE NoGesture

GestureUndo(ok) ==
    IF gesture.kind = "move" /\ gesture.phase = "up"
    THEN [gesture EXCEPT !.phase = "undone", !.ev = "undo", !.ok = ok]
    ELSE NoGesture

\* A polygon takes four clicks, eight pointer events, and a pointer-move
\* for its preview: the runs that follow the polygon tool are that much
\* longer than the others.
EventBudget == IF track = "polygon" THEN MaxEvents + 3 ELSE MaxEvents

\* one more input event; the bookkeeping of the command-stack calls rests
Event ==
    /\ events < EventBudget
    /\ events' = events + 1
    /\ UNCHANGED << ghostVars, liveLeft, callVars, busVars >>

\* AnnotationController.handle_mouse_press with the left button
MousePress(pos) ==
    LET Seen(g, closed) == IF closed THEN [g EXCEPT !.phase = "up"] ELSE g
        Pressed(s) ==
            /\ Within(s)
            /\ SetSys(s)
            /\ gesture' = Seen(GesturePress(pos),
                               s.sm.state = "IDLE" /\ current_state = "CREATING_POLYGON")
    IN /\ ~left_button_pressed
       /\ Pressed(Collect(_on_mouse_press(Sys, pos)))
       /\ left_button_pressed' = TRUE
       /\ UNCHANGED << mouse_dragging, asideVars, snap_to_grid >>
       /\ Event

\* AnnotationController.handle_mouse_move
MouseMove(pos) ==
    LET dragging == mouse_dragging \/ left_button_pressed
        Moved(s) == Within(s) /\ SetSys(s)
    IN /\ MovingExact(Sys, pos, dragging, snap_to_grid)
       /\ Moved(Collect(_update_hover_state(
                           _on_mouse_move(Sys, pos, dragging, snap_to_grid), pos)))
       /\ mouse_dragging' = dragging
       /\ gesture' = GestureMove(pos)
       /\ UNCHANGED << left_button_pressed, asideVars, snap_to_grid >>
       /\ Event

\* AnnotationController.handle_mouse_release with the left button
MouseRelease(pos) ==
    LET Released(s) == Within(s) /\ SetSys(s)
    IN /\ left_button_pressed
       /\ Released(Collect(_on_mouse_release(Sys, pos)))
       /\ left_button_pressed' = FALSE
       /\ mouse_dragging' = FALSE
       /\ gesture' = GestureRelease(pos)
       /\ UNCHANGED << asideVars, snap_to_grid >>
       /\ Event

\* AnnotationController.set_current_tool
SetCurrentTool(t) ==
    /\ t # current_tool
    /\ current_tool' = t
    /\ gesture' = NoGesture
    /\ UNCHANGED << heap, dm_shapes, selected, hovered, temp_shape, current_color,
                    current_width, stackVars, smVars, inputVars, snap_to_grid >>
    /\ Event

\* Ctrl+Z: AnnotationController._undo
KeyUndo ==
    LET Undone(r) ==
            /\ SetWorld(r.w)
            /\ SetStack(r)
            /\ gesture' = GestureUndo(r.ok)
    IN /\ Undone(undo(operation_history, current_index, World, FALSE))
       /\ UNCHANGED << nextOp, smVars, inputVars, snap_to_grid >>
       /\ Event

\* Ctrl+Y: AnnotationController._redo
KeyRedo ==
    LET Redone(r) == SetWorld(r.w) /\ SetStack(r)
    IN /\ Redone(redo(operation_history, current_index, World, FALSE))
       /\ gesture' = NoGesture
       /\ UNCHANGED << nextOp, smVars, inputVars, snap_to_grid >>
       /\ Event

\* Ctrl+G: AnnotationController._toggle_grid_snap
ToggleGridSnap ==
    /\ snap_to_grid' = ~snap_to_grid
    /\ gesture' = NoGesture
    /\ UNCHANGED << dataVars, stackVars, smVars, inputVars >>
    /\ Event

\* the collaborator call add_shape(shape) with a new point, outside the
\* command stack
LoadedShapes == { Shape("Point", << <<3, 0>> >>) }
LoadShape ==
    \E sh \in LoadedShapes :
        /\ Len(heap) < MaxShapes
        /\ current_state = "IDLE"
        /\ ~left_button_pressed
        /\ SetWorld(add_shape([World EXCEPT !.heap = Append(@, sh)], Len(heap) + 1, FALSE).w)
        /\ gesture' = NoGesture
        /\ UNCHANGED << stackVars, smVars, inputVars, snap_to_grid >>
        /\ Event

Next ==
    \/ \E pos \in Positions : MousePress(pos)
    \/ \E pos \in Positions : MouseMove(pos)
    \/ \E pos \in Positions : MouseRelease(pos)
    \/ \E t \in Tools : SetCurrentTool(t)
    \/ KeyUndo
    \/ KeyRedo
    \/ ToggleGridSnap
    \/ LoadShape

InitUI == InitBase /\ track = "ui"

Spec == InitUI /\ [][Next]_vars

\* the pointer and the tool selection alone
NextPolygon ==
    \/ \E pos \in Positions : MousePress(pos)
    \/ \E pos \in Positions : MouseMove(pos)
    \/ \E pos \in Positions : MouseRelease(pos)
    \/ \E t \in Tools : SetCurrentTool(t)

InitPolygon == InitBase /\ track = "polygon"

SpecPolygon == InitPolygon /\ [][NextPolygon]_vars

\* ------------------------------------------- calls into the data store
\* DataManager.set_hovered_shape
set_hovered_shape(w, s) ==
    [w |-> [w EXCEPT !.hovered = s],
     events |-> IF w.hovered # s THEN << EventOf("HOVER_CHANGED", s) >> ELSE << >>]

\* DataManager.export_data
export_data(w) ==
    [shapes |-> [i \in 1..Len(w.shapes) |-> to_dict(w.heap[w.shapes[i]])],
     settings |-> Settings(EnumValue(DrawTypes, w.tool), EnumValue(DrawColors, w.color),
                           EnumValue(PenWidths, w.width))]

\* DataManager.import_data: the list is cleared, every entry the factory
\* decodes is appended, then the settings are converted one after the
\* other; the first value that is no member raises, and what was assigned
\* before stays
import_data(w, data) ==
    LET decoded == [i \in 1..Len(data.shapes) |-> create_from_dict(data.shapes[i])]
        made == SelectSeq(decoded, LAMBDA sh : sh # NoShape)
        Converted(tool, color, width) ==
            [w |-> [w EXCEPT !.heap = @ \o made,
                             !.shapes = [i \in 1..Len(made) |-> Len(w.heap) + i],
                             !.selected = None, !.hovered = None, !.temp = None,
                             !.tool = IF tool = "invalid" THEN @ ELSE tool,
                             !.color = IF "invalid" \in {tool, color} THEN @ ELSE color,
                             !.width = IF "invalid" \in {tool, color, width} THEN @ ELSE width],
             ret |-> "invalid" \notin {tool, color, width},
             raised |-> "invalid" \in {tool, color, width},
             events |-> [i \in 1..Len(w.shapes) |-> EventOf("SHAPE_REMOVED", w.shapes[i])]]
        st == data.settings
    IN Converted(IF st.current_tool = NoSetting THEN w.tool
                 ELSE EnumOf(DrawTypes, st.current_tool),
                 IF st.current_color = NoSetting THEN w.color
                 ELSE EnumOf(DrawColors, st.current_color),
                 IF st.current_width = NoSetting THEN w.width
                 ELSE EnumOf(PenWidths, st.current_width))

\* the objects the cleared list held are dropped: the first n objects of
\* the heap go and the others are renumbered
Forget(w, n) ==
    [w EXCEPT !.heap = SubSeq(@, n + 1, Len(@)),
              !.shapes = [i \in 1..Len(@) |-> @[i] - n]]

\* the shapes the callers construct
DataShapes ==
    { NewShape("Point", << <<3, 0>> >>, "RED", "MEDIUM", << >>),
      NewShape("Ellipse", << <<0, 0>>, <<40, 30>> >>, "BLUE", "THICK", << >>),
      NewShape("Polygon", << <<0, 0>>, <<40, 0>>, <<40, 30>> >>, "GREEN", "THIN", << >>) }

\* the data the callers import: a file with an entry of an unknown shape
\* type, a file with a colour setting that is no DrawColor, a good file
DataChoices ==
    { [shapes |-> << ShapeData(1, << <<40, 30>> >>, "dict"), ShapeData(9, << >>, "tuple") >>,
       settings |-> Settings(NoSetting, NoSetting, NoSetting)],
      [shapes |-> << ShapeData(1, << <<40, 30>> >>, "tuple") >>,
       settings |-> Settings(3, 99, 3)],
      [shapes |-> << ShapeData(3, << <<0, 0>>, <<40, 30>> >>, "tuple") >>,
       settings |-> Settings(3, 1, 2)] }

\* the callers of the data store hold one shape less than the list takes
DataRoom == Len(heap) < MaxShapes - 1

unchangedData ==
    UNCHANGED << stackVars, ghostVars, smVars, inputVars, snap_to_grid, gesture,
                 liveLeft, events, busVars >>

\* add_shape(shape) with a shape just constructed
DataAddNew ==
    \E sh \in DataShapes :
        LET Added(r) ==
                /\ SetWorld(r.w)
                /\ dataCall' = DataCall("add_shape", Len(heap) + 1, FALSE, r.raised)
                /\ published' = r.events
        IN /\ DataRoom
           /\ Added(add_shape([World EXCEPT !.heap = Append(@, sh)], Len(heap) + 1, FALSE))
           /\ unchangedData

\* add_shape(shape) with a shape the caller holds: one of the list or one
\* that was removed from it
DataAdd ==
    \E s \in 1..Len(heap) :
        LET Added(r) ==
                /\ SetWorld(r.w)
                /\ dataCall' = DataCall("add_shape", s, FALSE, r.raised)
                /\ published' = r.events
        IN Added(add_shape(World, s, FALSE)) /\ unchangedData

DataRemove ==
    \E s \in 1..Len(heap) :
        LET Removed(r) ==
                /\ SetWorld(r.w)
                /\ dataCall' = DataCall("remove_shape", s, r.ret, r.raised)
                /\ published' = r.events
        IN Removed(remove_shape(World, s, FALSE)) /\ unchangedData

DataSelect ==
    \E s \in {None} \cup Range(dm_shapes) :
        /\ SetWorld(select_shape(World, s))
        /\ dataCall' = DataCall("select_shape", s, FALSE, FALSE)
        /\ published' = select_shape_events(World, s)
        /\ unchangedData

DataHover ==
    \E s \in {None} \cup Range(dm_shapes) :
        LET Lit(r) ==
                /\ SetWorld(r.w)
                /\ dataCall' = DataCall("set_hovered_shape", s, FALSE, FALSE)
                /\ published' = r.events
        IN Lit(set_hovered_shape(World, s)) /\ unchangedData

\* get_hit_target(pos)
DataHit ==
    \E pos \in Positions :
        /\ dataCall' = [DataCall("get_hit_target", None, FALSE, FALSE)
                            EXCEPT !.pos = pos, !.hit = get_hit_target(World, pos)]
        /\ published' = << >>
        /\ UNCHANGED dataVars
        /\ unchangedData

\* import_data(data)
DataImport ==
    \E data \in DataChoices :
        LET Imported(r) ==
                /\ SetWorld(Forget(r.w, Len(heap)))
                /\ dataCall' = [DataCall("import_data", None, r.ret, r.raised)
                                    EXCEPT !.data = data]
                /\ published' = r.events
        IN Imported(import_data(World, data)) /\ unchangedData

\* import_data(export_data())
DataReload ==
    LET Imported(r, data) ==
            /\ SetWorld(Forget(r.w, Len(heap)))
            /\ dataCall' = [DataCall("import_data", None, r.ret, r.raised)
                                EXCEPT !.data = data]
            /\ published' = r.events
        Exported(data) == Imported(import_data(World, data), data)
    IN Exported(export_data(World)) /\ unchangedData

NextData ==
    \/ DataAddNew
    \/ DataAdd
    \/ DataRemove
    \/ DataSelect
    \/ DataHover
    \/ DataHit
    \/ DataImport
    \/ DataReload

InitData == InitBase /\ track = "data"

SpecData == InitData /\ [][NextData]_vars

\* ---------------------------------------------------------- the event bus
\* subs is EventBus._subscribers: per event kind the list of the handlers;
\* a handler is the number of its callable
subscribe(subs, type, callback) ==
    IF InSeq(subs[type], callback) THEN subs
    ELSE [subs EXCEPT ![type] = Append(@, callback)]

unsubscribe(subs, type, callback) ==
    IF InSeq(subs[type], callback) THEN [subs EXCEPT ![type] = SeqRemove(@, callback)]
    ELSE subs

\* what the handlers do with the bus when they are called: the first one
\* unsubscribes the second from the kind, the second subscribes the third
\* to it, the others leave the bus alone
Callback(subs, type, callback) ==
    CASE callback = 1 -> unsubscribe(subs, type, 2)
      [] callback = 2 -> subscribe(subs, type, 3)
      [] OTHER -> subs

\* the list publish walks through: the copy it took before the first call
Callbacks_live(copy, subs, type) == subs[type]
Callbacks(copy, subs, type) == copy

\* the end of publish when a handler raised: EventHandlerError with the
\* value of the event kind goes to the caller
Raised_unsubscribed(subs, type, invoked) ==
    [subs |-> unsubscribe(subs, type, invoked[Len(invoked)]), invoked |-> invoked,
     error |-> "EventHandlerError", event_type |-> EventTypeValue(type)]
Raised(subs, type, invoked) ==
    [subs |-> subs, invoked |-> invoked,
     error |-> "EventHandlerError", event_type |-> EventTypeValue(type)]

\* the loop of publish from the i-th callback on; bad is the handler that
\* raises when it is called (None: no handler raises)
RECURSIVE Deliver(_, _, _, _, _, _)
Deliver(subs, type, copy, i, bad, invoked) ==
    LET Called(callback) ==
            IF callback = bad THEN Raised(subs, type, Append(invoked, callback))
            ELSE Deliver(Callback(subs, type, callback), type, copy, i + 1, bad,
                         Append(invoked, callback))
    IN IF i > Len(Callbacks(copy, subs, type))
       THEN [subs |-> subs, invoked |-> invoked, error |-> "none", event_type |-> "none"]
       ELSE Called(Callbacks(copy, subs, type)[i])

\* EventBus.publish
publish(subs, type, bad) == Deliver(subs, type, subs[type], 1, bad, << >>)

\* the kinds the handlers subscribe to here, the handlers
BusTypes == { "SHAPE_ADDED", "SHAPE_REMOVED" }
Handlers == 1..MaxHandlers

unchangedBus ==
    UNCHANGED << dataVars, stackVars, ghostVars, smVars, inputVars, snap_to_grid,
                 gesture, liveLeft, events, callVars >>

Subscribe ==
    \E type \in BusTypes, h \in Handlers :
        /\ subscribers' = subscribe(subscribers, type, h)
        /\ dispatch' = NoDispatch
        /\ unchangedBus

Unsubscribe ==
    \E type \in BusTypes, h \in Handlers :
        /\ subscribers' = unsubscribe(subscribers, type, h)
        /\ dispatch' = NoDispatch
        /\ unchangedBus

Publish ==
    \E type \in BusTypes, bad \in {None} \cup Handlers :
        LET Done(r) ==
                /\ subscribers' = r.subs
                /\ dispatch' = [type |-> type, invoked |-> r.invoked, error |-> r.error,
                                event_type |-> r.event_type,
                                raiser |-> IF r.error = "none" THEN None ELSE bad]
        IN Done(publish(subscribers, type, bad)) /\ unchangedBus

NextBus ==
    \/ Subscribe
    \/ Unsubscribe
    \/ Publish

InitBus == InitBase /\ track = "bus"

SpecBus == InitBus /\ [][NextBus]_vars

\* ------------------------------------------------------ calls of a shape
\* EllipseShape.contains_point, with RX, RY, A, B as above and L the
\* larger of RX and RY, so that RX RY = M L:
\*   distance <= (1 + tolerance_factor)^2
\* is  (A^2 RY^2 + B^2 RX^2) / (M^2 L^2) <= (M + 2 tol)^2 / M^2
ellipse_contains_point(sh, p, tol) ==
    LET RX == Abs(sh.pts[2][1] - sh.pts[1][1])
        RY == Abs(sh.pts[2][2] - sh.pts[1][2])
        M == Min2(RX, RY)
        L == Max2(RX, RY)
        A == 2 * p[1] - (sh.pts[1][1] + sh.pts[2][1])
        B == 2 * p[2] - (sh.pts[1][2] + sh.pts[2][2])
    IN IF RX <= 0 \/ RY <= 0
       THEN /\ tol > 0
            /\ Min2(sh.pts[1][1], sh.pts[2][1]) - tol <= p[1]
            /\ p[1] <= Max2(sh.pts[1][1], sh.pts[2][1]) + tol
            /\ Min2(sh.pts[1][2], sh.pts[2][2]) - tol <= p[2]
            /\ p[2] <= Max2(sh.pts[1][2], sh.pts[2][2]) + tol
       ELSE A * A * RY * RY + B * B * RX * RX <= (M + 2 * tol) * (M + 2 * tol) * L * L

\* the corners of the ellipses that are constructed, the z_order argument
\* of the constructor and of set_z_order, the points that are tested
EllipseCorners ==
    { << <<-10, -5>>, <<10, 5>> >>, << <<0, 0>>, <<40, 20>> >>, << <<0, 0>>, <<40, 0>> >> }
ZOrders == (MIN_Z_ORDER - 2)..(MAX_Z_ORDER + 2)
TestPoints == { <<0, 0>>, <<10, 0>>, <<100, 100>>, <<20, 10>> }

unchangedShape ==
    UNCHANGED << dm_shapes, selected, hovered, temp_shape, current_tool, current_color,
                 current_width, stackVars, ghostVars, smVars, inputVars, snap_to_grid,
                 gesture, liveLeft, events, published, busVars >>

\* EllipseShape(start_point, end_point, z_order=...): the shape under test
NewEllipse ==
    \E pts \in EllipseCorners, zarg \in { << >> } \cup { << z >> : z \in ZOrders } :
        /\ heap' = << NewShape("Ellipse", pts, "RED", "MEDIUM", zarg) >>
        /\ dataCall' = [DataCall("EllipseShape", 1, FALSE, FALSE) EXCEPT !.z = zarg]
        /\ unchangedShape

SetZOrder ==
    \E s \in 1..Len(heap), z \in ZOrders :
        /\ heap' = [heap EXCEPT ![s] = set_z_order(@, z)]
        /\ dataCall' = [DataCall("set_z_order", s, FALSE, FALSE) EXCEPT !.z = << z >>]
        /\ unchangedShape

BringToFront ==
    \E s \in 1..Len(heap) :
        /\ heap' = [heap EXCEPT ![s] = bring_to_front(@)]
        /\ dataCall' = DataCall("bring_to_front", s, FALSE, FALSE)
        /\ unchangedShape

SendToBack ==
    \E s \in 1..Len(heap) :
        /\ heap' = [heap EXCEPT ![s] = send_to_back(@)]
        /\ dataCall' = DataCall("send_to_back", s, FALSE, FALSE)
        /\ unchangedShape

\* contains_point(point) with the default tolerance
ContainsPoint ==
    \E s \in 1..Len(heap), p \in TestPoints :
        /\ dataCall' = [DataCall("contains_point", s,
                                 ellipse_contains_point(heap[s], p, SHAPE_DEFAULT_TOLERANCE),
                                 FALSE) EXCEPT !.pos = p]
        /\ UNCHANGED heap
        /\ unchangedShape

\* contains_point_on_boundary(point) with the default tolerance
ContainsPointOnBoundary ==
    \E s \in 1..Len(heap), p \in TestPoints :
        /\ dataCall' = [DataCall("contains_point_on_boundary", s,
                                 contains_point_on_boundary(heap[s], p, SHAPE_DEFAULT_TOLERANCE),
                                 FALSE) EXCEPT !.pos = p]
        /\ UNCHANGED heap
        /\ unchangedShape

NextShape ==
    \/ NewEllipse
    \/ SetZOrder
    \/ BringToFront
    \/ SendToBack
    \/ ContainsPoint
    \/ ContainsPointOnBoundary

InitShape == InitBase /\ track = "shape"

SpecShape == InitShape /\ [][NextShape]_vars

\* ------------------------------------------- interaction: keys and dialogs
\* StateManager._do_cancel_polygon (the SHAPE_REMOVED it publishes for the
\* preview polygon has no subscriber among the objects modelled here)
_do_cancel_polygon(s) ==
    [s EXCEPT !.sm.polygon_vertices = << >>, !.sm.temp_polygon = None,
              !.w.temp = None, !.sm.state = "IDLE"]

\* StateManager._cancel_creating_polygon: [s, events], events being what it
\* publishes to the collaborator that asks the user
_cancel_creating_polygon_at_once(s) == [s |-> _do_cancel_polygon(s), events |-> << >>]
_cancel_creating_polygon(s) ==
    IF Len(s.sm.polygon_vertices) > POLYGON_CANCEL_MIN_VERTICES
    THEN [s |-> s, events |-> << EventOf("CONFIRM_CANCEL_POLYGON", None) >>]
    ELSE [s |-> _do_cancel_polygon(s), events |-> << >>]

\* StateManager._on_cancel_polygon_confirmed: the data of the event is not read
_on_cancel_polygon_confirmed(s, confirmed) == _do_cancel_polygon(s)

\* AnnotationController._on_confirm_cancel_polygon: reply is what the user
\* answers in the dialog, TRUE for Yes
_on_confirm_cancel_polygon(s, reply) ==
    IF reply
    THEN [s |-> _on_cancel_polygon_confirmed(s, TRUE),
          events |-> << EventOf("CANCEL_POLYGON_CONFIRMED", None) >>]
    ELSE [s |-> s, events |-> << >>]

\* AnnotationController._on_mode_changed with KeyConstants.ESCAPE
EscapePressed(s) ==
    IF s.sm.state = "CREATING_POLYGON" THEN _cancel_creating_polygon(s)
    ELSE [s |-> s, events |-> << >>]

\* AnnotationController._delete_selected_shape
_delete_selected_shape_keep(s) ==
    IF s.w.selected # None
    THEN [ManagerExecute(s, DeleteOperation(s.nextOp, << s.w.selected >>))
             EXCEPT !.w.selected = s.w.selected]
    ELSE s
_delete_selected_shape(s) ==
    IF s.w.selected # None
    THEN ManagerExecute(s, DeleteOperation(s.nextOp, << s.w.selected >>))
    ELSE s

\* the hover events of a pointer-move: CONTROL_POINT_HOVER_CHANGED for every
\* control point of the selected shape whose flag changes and HOVER_CHANGED
\* of _handle_shape_hover, both in Idle only, then HOVER_CHANGED of
\* set_hovered_shape in _update_hover_state
ControlPointHoverEvents(s, pos) ==
    LET sel == s.w.selected
        Changed(was, now) ==
            IF was = now THEN << >>
            ELSE [k \in 1..(IF was = NoCp \/ now = NoCp THEN 1 ELSE 2) |->
                     EventOf("CONTROL_POINT_HOVER_CHANGED", sel)]
    IN IF sel = None THEN << >>
       ELSE Changed(s.w.heap[sel].cp_hovered, _get_control_point_at(s.w, pos, sel))
ShapeHoverEvents(s, pos) ==
    LET current_hovered == s.w.hovered
        Over(hovered_shape) ==
            IF current_hovered # hovered_shape
            THEN (IF current_hovered # None
                  THEN << EventOf("HOVER_CHANGED", current_hovered) >> ELSE << >>)
                 \o (IF hovered_shape # None
                     THEN << EventOf("HOVER_CHANGED", hovered_shape) >> ELSE << >>)
            ELSE << >>
        Hit(hit) == Over(IF hit.type = "shape" THEN hit.target ELSE None)
    IN Hit(get_hit_target(s.w, pos))
HoverEvents(s, pos, dragging, snap) ==
    LET Updated(s1, hit) ==
            set_hovered_shape(s1.w, IF hit.type = "shape" THEN hit.target ELSE None).events
        After(s1) == Updated(s1, get_hit_target(s1.w, pos))
    IN (IF s.sm.state = "IDLE"
        THEN ControlPointHoverEvents(s, pos)
             \o ShapeHoverEvents(_handle_control_point_hover(s, pos), pos)
        ELSE << >>)
       \o After(_on_mouse_move(s, pos, dragging, snap))

\* whether _finish_moving or _finish_scaling, called on the pointer-up,
\* pushes an operation and publishes SHAPE_UPDATED and
\* DISPLAY_UPDATE_REQUESTED
PublishesUpdate(s, pos) ==
    \/ /\ s.sm.state = "MOVING"
       /\ s.sm.drag_start_shape # None
       /\ Truthy(s.sm.move_start_mouse_pos)
       /\ TruthyRef(s.sm.move_start_shape_pos)
       /\ PSub(pos, s.sm.move_start_mouse_pos) # <<0, 0>>
    \/ /\ s.sm.state = "SCALING"
       /\ s.sm.drag_start_shape # None
       /\ s.sm.drag_start_control_point # NoCp
       /\ Truthy(s.sm.scale_start_pos)
       /\ ControlPointPositions(s.w.heap[s.sm.drag_start_shape])
              [s.sm.drag_start_control_point + 1] # s.sm.scale_start_pos

\* StateManager._on_mouse_release when a subscriber of SHAPE_UPDATED raises:
\* the EventHandlerError leaves _finish_moving or _finish_scaling after
\* execute_operation, before the bookkeeping of the drag is cleared, and
\* leaves _on_mouse_release before _change_state
_on_mouse_release_raising(s, pos) ==
    IF PublishesUpdate(s, pos) THEN [_on_mouse_release(s, pos) EXCEPT !.sm = s.sm]
    ELSE _on_mouse_release(s, pos)

\* ---------------------------------------------------------- the renderer
\* CanvasRenderer._shape_graphics_items as the set of the shapes that have a
\* graphics item on the canvas; RenderStrategyFactory makes an item for every
\* shape.
\* CanvasRenderer._render_shape, the handler of SHAPE_ADDED
_render_shape(items, shape) == items \cup {shape}

\* CanvasRenderer._remove_shape_from_display, the handler of SHAPE_REMOVED
_remove_shape_from_display(items, shape) == items \ {shape}

\* CanvasRenderer._update_shape_display, the handler of SHAPE_UPDATED and, for
\* a shape that is not None, of HOVER_CHANGED
_update_shape_display(items, shape) ==
    IF shape = None THEN items ELSE items \cup {shape}

\* CanvasRenderer.update_all_display with the data store as w
update_all_display(items, w) ==
    items \cup Range(w.shapes)
          \cup (IF w.temp # None /\ ~InSeq(w.shapes, w.temp) THEN {w.temp} ELSE {})

\* CanvasRenderer._on_display_update_requested with the data store as w
_on_display_update_requested_plain(items, w, clear_temp, force_cleanup) ==
    update_all_display(items, w)
_on_display_update_requested(items, w, clear_temp, force_cleanup) ==
    LET Cleared(kept) ==
            IF force_cleanup THEN { shape \in kept : InSeq(w.shapes, shape) } ELSE kept
    IN update_all_display(
           Cleared(IF clear_temp /\ w.temp # None
                   THEN _remove_shape_from_display(items, w.temp) ELSE items), w)

\* an item of a shape that is neither in the list nor the temp shape, None if
\* there is none
Orphan(items, w) ==
    LET orphans == { shape \in items : ~InSeq(w.shapes, shape) /\ shape # w.temp }
    IN IF orphans = {} THEN None ELSE CHOOSE shape \in orphans : TRUE

\* the shapes a list of events names
EventShapes(evs, type) ==
    { evs[k].shape : k \in { j \in 1..Len(evs) : evs[j].type = type } } \ {None}

\* a shape object lives on while the renderer holds an item for it
RECURSIVE CollectShown(_, _)
CollectShown(s, items) ==
    IF s.w.heap # << >> /\ ~Referenced(s, Len(s.w.heap)) /\ Len(s.w.heap) \notin items
    THEN CollectShown([s EXCEPT !.w.heap = SubSeq(@, 1, Len(@) - 1)], items)
    ELSE s

\* what StateManager._on_mouse_press leaves in the renderer, s1 being the
\* state after it: _cleanup_temp_data publishes SHAPE_REMOVED for a preview
\* polygon left behind; _finish_creating_polygon publishes SHAPE_REMOVED for
\* the preview, the events of create_and_add_shape (SHAPE_ADDED, then
\* DISPLAY_UPDATE_REQUESTED while the preview is still the temp shape) and,
\* the temp shape cleared, DISPLAY_UPDATE_REQUESTED with clear_temp and
\* force_cleanup
FinishesPolygon(s, s1) == s.sm.state = "CREATING_POLYGON" /\ s1.sm.state = "IDLE"
BeforeCleanup(items, s, s1) ==
    update_all_display(
        (_remove_shape_from_display(items, s.sm.temp_polygon)
            \cup { shape \in Range(s1.w.shapes) : ~InSeq(s.w.shapes, shape) }),
        [s1.w EXCEPT !.temp = s.w.temp])
BeforeForced(items, s, s1) ==
    IF Len(s.sm.polygon_vertices) >= POLYGON_MIN_VERTICES
    THEN BeforeCleanup(items, s, s1) ELSE items
ShownAfterPress(items, s, s1) ==
    IF FinishesPolygon(s, s1)
    THEN _on_display_update_requested(BeforeForced(items, s, s1), s1.w, TRUE, TRUE)
    ELSE IF s.sm.state = "IDLE"
    THEN _remove_shape_from_display(items, s.sm.temp_polygon)
    ELSE items

\* what StateManager._on_mouse_move and the controller's _update_hover_state
\* leave in the renderer: HOVER_CHANGED of the hover handlers, SHAPE_UPDATED
\* of _handle_moving and _handle_scaling for the dragged shape and of
\* create_temp_shape and update_temp_shape for the preview
UpdatedByMove(s, s1, dragging) ==
    IF s.sm.state \in {"MOVING", "SCALING"}
    THEN (IF /\ dragging
             /\ s.sm.drag_start_shape # None
             /\ (IF s.sm.state = "MOVING" THEN Truthy(s.sm.drag_start_pos)
                 ELSE s.sm.drag_start_control_point # NoCp)
          THEN s.sm.drag_start_shape ELSE None)
    ELSE IF s.sm.state \in {"CREATING_RECT", "CREATING_ELLIPSE"}
    THEN (IF dragging /\ Truthy(s.sm.drag_start_pos) THEN s1.w.temp ELSE None)
    ELSE IF s.sm.state = "CREATING_POLYGON" /\ s.sm.polygon_vertices # << >>
    THEN s1.sm.temp_polygon
    ELSE None
ShownAfterMove(items, s, s1, evs, dragging) ==
    _update_shape_display(items \cup EventShapes(evs, "HOVER_CHANGED"),
                          UpdatedByMove(s, s1, dragging))

\* what StateManager._on_mouse_release leaves in the renderer: the events of
\* create_and_add_shape and finish_temp_shape_creation (SHAPE_ADDED if the
\* shape was added, then DISPLAY_UPDATE_REQUESTED before the temp shape is
\* cleared), SHAPE_UPDATED and DISPLAY_UPDATE_REQUESTED of _finish_moving and
\* _finish_scaling
ShownAfterRelease(items, s, s1, pos) ==
    IF \/ s.sm.state = "CREATING_POINT"
       \/ /\ s.sm.state \in {"CREATING_RECT", "CREATING_ELLIPSE"}
          /\ s.w.temp # None
          /\ s.w.heap[s.w.temp].kind
                 = (IF s.sm.state = "CREATING_RECT" THEN "Rectangle" ELSE "Ellipse")
    THEN _on_display_update_requested(
             items \cup { shape \in Range(s1.w.shapes) : ~InSeq(s.w.shapes, shape) },
             [s1.w EXCEPT !.temp = s.w.temp], FALSE, FALSE)
    ELSE IF PublishesUpdate(s, pos)
    THEN _on_display_update_requested(
             _update_shape_display(items, s.sm.drag_start_shape), s1.w, FALSE, FALSE)
    ELSE items

\* what a call of the command stack leaves in the renderer: the data store
\* publishes SHAPE_REMOVED for every shape it drops and SHAPE_ADDED for every
\* shape it takes in, and the controller publishes DISPLAY_UPDATE_REQUESTED
\* if display says so
ShownAfterCall(items, w, w1, display) ==
    LET Listed(now) ==
            IF display THEN _on_display_update_requested(now, w1, FALSE, FALSE) ELSE now
    IN Listed(((items \ { shape \in Range(w.shapes) : ~InSeq(w1.shapes, shape) })
                  \cup { shape \in Range(w1.shapes) : ~InSeq(w.shapes, shape) }))

\* The input events with what they publish on record: dataCall is the last
\* input event (its kind, its position, whether a subscriber raised in it,
\* ret the answer of the user or the flag an event carried), published its
\* hover and dialog events, dispatch the CONFIRM_CANCEL_POLYGON event while
\* its dialog is open.  The dialog is modal: no other input arrives before
\* the answer.
Input(kind, pos, ret, raised) == [DataCall(kind, None, ret, raised) EXCEPT !.pos = pos]
Asking == [NoDispatch EXCEPT !.type = "CONFIRM_CANCEL_POLYGON"]
InputStep(call, evs, asking) ==
    /\ dispatch = NoDispatch
    /\ events < EventBudget
    /\ events' = events + 1
    /\ dataCall' = call
    /\ published' = evs
    /\ dispatch' = IF asking THEN Asking ELSE NoDispatch
    /\ UNCHANGED << ghostVars, liveLeft, gesture, subscribers, snap_to_grid >>

\* AnnotationController.handle_mouse_press with the left button; a
\* pointer-down may reach the state machine while a drag lasts.  On record:
\* whether DISPLAY_UPDATE_REQUESTED with force_cleanup was published, and an
\* orphan item the renderer held when it was
PointerPress(pos) ==
    LET Shown(s, items) ==
            /\ Within(CollectShown(s, items))
            /\ SetSys(CollectShown(s, items))
            /\ _shape_graphics_items' = items
            /\ InputStep([Input("mouse_press", pos, FinishesPolygon(Sys, s), FALSE)
                            EXCEPT !.shape =
                               IF FinishesPolygon(Sys, s)
                               THEN Orphan(BeforeForced(_shape_graphics_items, Sys, s), s.w)
                               ELSE None],
                         << >>, FALSE)
        Pressed(s) == Shown(s, ShownAfterPress(_shape_graphics_items, Sys, s))
    IN /\ ~left_button_pressed \/ current_state \notin {"IDLE", "CREATING_POLYGON"}
       /\ Pressed(_on_mouse_press(Sys, pos))
       /\ left_button_pressed' = TRUE
       /\ UNCHANGED << mouse_dragging, otherButtons >>

\* AnnotationController.handle_mouse_move
PointerMove(pos) ==
    LET dragging == mouse_dragging \/ left_button_pressed
        Shown(s, items) ==
            /\ Within(CollectShown(s, items))
            /\ SetSys(CollectShown(s, items))
            /\ _shape_graphics_items' = items
        Hovered(s, evs) ==
            /\ Shown(s, ShownAfterMove(_shape_graphics_items, Sys, s, evs, dragging))
            /\ InputStep(Input("mouse_move", pos, FALSE, FALSE), evs, FALSE)
        Moved(s) == Hovered(s, HoverEvents(Sys, pos, dragging, snap_to_grid))
    IN /\ MovingExact(Sys, pos, dragging, snap_to_grid)
       /\ Moved(_update_hover_state(_on_mouse_move(Sys, pos, dragging, snap_to_grid), pos))
       /\ mouse_dragging' = dragging
       /\ UNCHANGED << left_button_pressed, otherButtons >>

\* AnnotationController.handle_mouse_release with the left button; raises
\* says whether a subscriber of SHAPE_UPDATED raises, which leaves
\* InputHandler.handle_mouse_release before it resets mouse_dragging, the
\* renderer called before that subscriber or not at all
PointerRelease(pos, raises) ==
    LET Shown(s, items) ==
            /\ Within(CollectShown(s, items))
            /\ SetSys(CollectShown(s, items))
            /\ _shape_graphics_items' = items
        Released(s) ==
            IF raises
            THEN \E seen \in BOOLEAN :
                    Shown(s, IF seen THEN _update_shape_display(_shape_graphics_items,
                                                               drag_start_shape)
                             ELSE _shape_graphics_items)
            ELSE Shown(s, ShownAfterRelease(_shape_graphics_items, Sys, s, pos))
    IN /\ left_button_pressed
       /\ raises => PublishesUpdate(Sys, pos)
       /\ Released(IF raises THEN _on_mouse_release_raising(Sys, pos)
                   ELSE _on_mouse_release(Sys, pos))
       /\ left_button_pressed' = FALSE
       /\ mouse_dragging' = (raises /\ mouse_dragging)
       /\ UNCHANGED otherButtons
       /\ InputStep(Input("mouse_release", pos, FALSE, raises), << >>, FALSE)

\* AnnotationController.set_current_tool
ChooseTool(t) ==
    /\ t # current_tool
    /\ current_tool' = t
    /\ UNCHANGED << heap, dm_shapes, selected, hovered, temp_shape, current_color,
                    current_width, stackVars, smVars, inputVars >>
    /\ InputStep(Input("set_current_tool", NoPos, FALSE, FALSE), << >>, FALSE)

\* the input events below leave the adapter as it is
adapterVars == << left_button_pressed, mouse_dragging, otherButtons >>

\* the Delete key: AnnotationController._delete_selected_shape
PressDelete ==
    LET Shown(s, items) ==
            /\ Within(CollectShown(s, items))
            /\ SetSys(CollectShown(s, items))
            /\ _shape_graphics_items' = items
        Deleted(s) ==
            Shown(s, ShownAfterCall(_shape_graphics_items, World, s.w, selected # None))
    IN /\ Deleted(_delete_selected_shape(Sys))
       /\ UNCHANGED adapterVars
       /\ InputStep(Input("delete", NoPos, FALSE, FALSE), << >>, FALSE)

\* Ctrl+Z and Ctrl+Y: AnnotationController._undo and _redo
PressUndo ==
    LET Undone(r) ==
            /\ SetWorld(r.w)
            /\ SetStack(r)
            /\ _shape_graphics_items'
                   = ShownAfterCall(_shape_graphics_items, World, r.w, r.ok)
    IN /\ Undone(undo(operation_history, current_index, World, FALSE))
       /\ UNCHANGED << nextOp, smVars, adapterVars >>
       /\ InputStep(Input("undo", NoPos, FALSE, FALSE), << >>, FALSE)
PressRedo ==
    LET Redone(r) ==
            /\ SetWorld(r.w)
            /\ SetStack(r)
            /\ _shape_graphics_items'
                   = ShownAfterCall(_shape_graphics_items, World, r.w, r.ok)
    IN /\ Redone(redo(operation_history, current_index, World, FALSE))
       /\ UNCHANGED << nextOp, smVars, adapterVars >>
       /\ InputStep(Input("redo", NoPos, FALSE, FALSE), << >>, FALSE)

\* the Escape key: the dialog opens when CONFIRM_CANCEL_POLYGON is published
PressEscape ==
    LET Shown(s, items) ==
            /\ SetSys(CollectShown(s, items))
            /\ _shape_graphics_items' = items
        Escaped(r) ==
            /\ Shown(r.s, IF r.s.sm.state = "IDLE"
                          THEN _remove_shape_from_display(_shape_graphics_items,
                                                          temp_polygon)
                          ELSE _shape_graphics_items)
            /\ InputStep(Input("escape", NoPos, FALSE, FALSE), r.events, r.events # << >>)
    IN /\ Escaped(EscapePressed(Sys))
       /\ UNCHANGED adapterVars

\* the user answers the dialog
AnswerDialog(reply) ==
    LET Shown(s, items) ==
            /\ SetSys(CollectShown(s, items))
            /\ _shape_graphics_items' = items
        Answered(r) ==
            /\ Shown(r.s, IF reply
                          THEN _remove_shape_from_display(_shape_graphics_items,
                                                          temp_polygon)
                          ELSE _shape_graphics_items)
            /\ dataCall' = Input("answer", NoPos, reply, FALSE)
            /\ published' = r.events
    IN /\ dispatch = Asking
       /\ Answered(_on_confirm_cancel_polygon(Sys, reply))
       /\ dispatch' = NoDispatch
       /\ UNCHANGED << adapterVars, events, ghostVars, liveLeft, gesture, subscribers,
                       snap_to_grid >>

\* a collaborator publishes CANCEL_POLYGON_CONFIRMED with a flag in its data
PublishCancelConfirmed(confirmed) ==
    LET Shown(s, items) ==
            /\ SetSys(CollectShown(s, items))
            /\ _shape_graphics_items' = items
    IN /\ Shown(_on_cancel_polygon_confirmed(Sys, confirmed),
                _remove_shape_from_display(_shape_graphics_items, temp_polygon))
       /\ UNCHANGED adapterVars
    /\ InputStep(Input("cancel_polygon_confirmed", NoPos, confirmed, FALSE), << >>, FALSE)

\* the collaborator call add_shape(shape) with a new point
PutShape ==
    \E sh \in LoadedShapes :
        /\ Len(heap) < MaxShapes
        /\ current_state = "IDLE"
        /\ ~left_button_pressed
        /\ SetWorld(add_shape([World EXCEPT !.heap = Append(@, sh)], Len(heap) + 1, FALSE).w)
        /\ _shape_graphics_items' = _render_shape(_shape_graphics_items, Len(heap) + 1)
        /\ UNCHANGED << stackVars, smVars, adapterVars >>
        /\ InputStep(Input("add_shape", NoPos, FALSE, FALSE), << >>, FALSE)

NextKeys ==
    \/ \E pos \in Positions : PointerPress(pos)
    \/ \E pos \in Positions : PointerMove(pos)
    \/ \E pos \in Positions : PointerRelease(pos, FALSE)
    \/ \E t \in Tools : ChooseTool(t)
    \/ PressDelete
    \/ PressUndo
    \/ PressRedo
    \/ PressEscape
    \/ \E reply \in BOOLEAN : AnswerDialog(reply)
    \/ \E confirmed \in BOOLEAN : PublishCancelConfirmed(confirmed)
    \/ PutShape

InitKeys == InitBase /\ track = "keys"

SpecKeys == InitKeys /\ [][NextKeys]_vars

\* the pointer alone, with subscribers of SHAPE_UPDATED that may raise
NextFaults ==
    \/ \E pos \in Positions : PointerPress(pos)
    \/ \E pos \in Positions : PointerMove(pos)
    \/ \E pos \in Positions, raises \in BOOLEAN : PointerRelease(pos, raises)
    \/ PutShape

InitFaults == InitBase /\ track = "faults"

SpecFaults == InitFaults /\ [][NextFaults]_vars

\* ------------------------------------------------- interaction: the adapter
\* The InputHandler on the bus the StateManager subscribes to.  dataCall is
\* the event it published: its kind, its position, ret its 'dragging' entry
\* as a subscriber reads it (False where the event has none), data its button.
Buttons == {"LeftButton", "RightButton", "MiddleButton"}
Adapted(kind, button, pos, dragging, type) ==
    InputStep([Input(kind, pos, dragging, FALSE) EXCEPT !.data = button],
              << EventOf(type, None) >>, FALSE)

\* InputHandler.handle_mouse_press
handle_mouse_press(button, pos) ==
    LET Pressed(s) == Within(s) /\ SetSys(s)
    IN /\ Pressed(Collect(_on_mouse_press(Sys, pos)))
       /\ left_button_pressed' = (left_button_pressed \/ button = "LeftButton")
       /\ right_button_pressed' = (right_button_pressed \/ button = "RightButton")
       /\ middle_button_pressed' = (middle_button_pressed \/ button = "MiddleButton")
       /\ UNCHANGED << mouse_dragging, renderVars >>
       /\ Adapted("mouse_press", button, pos, FALSE, "MOUSE_PRESS")

\* InputHandler.handle_mouse_move
handle_mouse_move(pos) ==
    LET dragging == mouse_dragging \/ left_button_pressed
        Moved(s) == Within(s) /\ SetSys(s)
    IN /\ MovingExact(Sys, pos, dragging, snap_to_grid)
       /\ Moved(Collect(_on_mouse_move(Sys, pos, dragging, snap_to_grid)))
       /\ mouse_dragging' = dragging
       /\ UNCHANGED << left_button_pressed, asideVars >>
       /\ Adapted("mouse_move", "NoButton", pos, dragging, "MOUSE_MOVE")

\* InputHandler.handle_mouse_release: the StateManager returns at once from a
\* MOUSE_RELEASE whose 'left_button_pressed' is true
handle_mouse_release_dragging(button, pos) ==
    LET left == left_button_pressed /\ button # "LeftButton"
        Released(s) == Within(s) /\ SetSys(s)
    IN /\ Released(Collect(IF left THEN Sys ELSE _on_mouse_release(Sys, pos)))
       /\ left_button_pressed' = left
       /\ right_button_pressed' = (right_button_pressed /\ button # "RightButton")
       /\ middle_button_pressed' = (middle_button_pressed /\ button # "MiddleButton")
       /\ UNCHANGED << mouse_dragging, renderVars >>
       /\ Adapted("mouse_release", button, pos, mouse_dragging, "MOUSE_RELEASE")
handle_mouse_release(button, pos) ==
    LET left == left_button_pressed /\ button # "LeftButton"
        Released(s) == Within(s) /\ SetSys(s)
    IN /\ Released(Collect(IF left THEN Sys ELSE _on_mouse_release(Sys, pos)))
       /\ left_button_pressed' = left
       /\ right_button_pressed' = (right_button_pressed /\ button # "RightButton")
       /\ middle_button_pressed' = (middle_button_pressed /\ button # "MiddleButton")
       /\ mouse_dragging' = FALSE
       /\ UNCHANGED renderVars
       /\ Adapted("mouse_release", button, pos, mouse_dragging, "MOUSE_RELEASE")

\* InputHandler.handle_wheel_event: a MOUSE_MOVE event with no 'dragging' entry
handle_wheel_event(pos) ==
    LET Moved(s) == Within(s) /\ SetSys(s)
    IN /\ MovingExact(Sys, pos, FALSE, snap_to_grid)
       /\ Moved(Collect(_on_mouse_move(Sys, pos, FALSE, snap_to_grid)))
       /\ UNCHANGED inputVars
       /\ Adapted("wheel", "NoButton", pos, FALSE, "MOUSE_MOVE")

NextInput ==
    \/ \E button \in Buttons, pos \in Positions : handle_mouse_press(button, pos)
    \/ \E pos \in Positions : handle_mouse_move(pos)
    \/ \E button \in Buttons, pos \in Positions : handle_mouse_release(button, pos)
    \/ \E pos \in Positions : handle_wheel_event(pos)

InitInput == InitBase /\ track = "input"

SpecInput == InitInput /\ [][NextInput]_vars

\* Shift+Delete: AnnotationController.clear_all_shapes
PressShiftDelete ==
    LET Shown(s, items) ==
            /\ Within(CollectShown(s, items))
            /\ SetSys(CollectShown(s, items))
            /\ _shape_graphics_items' = items
        Deleted(s) ==
            Shown(s, ShownAfterCall(_shape_graphics_items, World, s.w, dm_shapes # << >>))
    IN /\ Deleted(IF dm_shapes # << >>
                  THEN ManagerExecute(Sys, DeleteOperation(nextOp, dm_shapes))
                  ELSE Sys)
       /\ UNCHANGED adapterVars
       /\ InputStep(Input("delete_all", NoPos, FALSE, FALSE), << >>, FALSE)

\* pointer gestures, the tools, Delete, Shift+Delete, undo and redo with the
\* renderer subscribed
NextRender ==
    \/ \E pos \in Positions : PointerPress(pos)
    \/ \E pos \in Positions : PointerMove(pos)
    \/ \E pos \in Positions : PointerRelease(pos, FALSE)
    \/ \E t \in Tools : ChooseTool(t)
    \/ PressDelete
    \/ PressShiftDelete
    \/ PressUndo
    \/ PressRedo

InitRender == InitBase /\ track = "render"

SpecRender == InitRender /\ [][NextRender]_vars

\* ------------------------------------------------- laws of undo and redo
\* C1: after N operations executed successfully through execute_operation,
\* undo() called N times returns the ordered shape list to its value before
\* the sequence (same shapes, same order, same geometry).  Stated for every
\* suffix of the sequence: while a run of successful executes is being
\* undone, every undo succeeds and the list has the value it had before the
\* operation just undone was executed.
LawUndo ==
    /\ runPhase # "undoFailed"
    /\ runPhase = "undo"
          => ShapeListValue(heap, dm_shapes) = preVal[current_index + 3 - cleanFrom]

\* C2: after N successful executes and N undos, redo() called N times
\* returns the shape list to its value after the sequence, and every redo
\* returns true.
LawRedo ==
    /\ runPhase # "redoFailed"
    /\ (runPhase = "redo" /\ current_index = Len(operation_history) - 1)
          => ShapeListValue(heap, dm_shapes) = postVal

\* ------------------------------------------------ laws of the history
\* C3: when operation.execute() succeeds, execute_operation discards every
\* entry after current_index, appends the operation, sets current_index to
\* the last position, leaves the entries up to the old current_index as they
\* were, and can_redo() is false right afterwards.
ExecuteTruncatesAndAppends ==
    [][ (lastCall'.kind = "execute" /\ lastCall'.ok)
          => /\ Len(operation_history') = current_index + 2
             /\ \A k \in 1..(current_index + 1) :
                   operation_history'[k] = operation_history[k]
             /\ operation_history'[current_index + 2].id = lastCall'.op
             /\ current_index' = Len(operation_history') - 1
             /\ ~can_redo(operation_history', current_index') ]_vars

\* a successful execute_operation that dropped a redo tail and kept an entry
ExecuteTruncatesWitness ==
    /\ lastCall.kind = "execute"
    /\ lastCall.ok
    /\ lastCall.dropped > 0
    /\ current_index > 0

\* C4: when the operation's step returns false the manager returns false and
\* the history holds the same operations at the same index; undo() with
\* current_index < 0 and redo() at the last entry return false and change
\* nothing; a successful undo or redo moves the index by exactly one over
\* the same history, so no operation is skipped.
FailedStepKeepsHistory ==
    [][ LET c == lastCall'
            sameHistory == OpIds(operation_history') = OpIds(operation_history)
        IN /\ (c.kind \in {"execute", "undo", "redo"} /\ c.step = "false")
                 => ~c.ok /\ sameHistory /\ current_index' = current_index
           /\ (c.kind = "undo" /\ current_index < 0)
                 => ~c.ok /\ UNCHANGED << dataVars, stackVars >>
           /\ (c.kind = "redo" /\ current_index >= Len(operation_history) - 1)
                 => ~c.ok /\ UNCHANGED << dataVars, stackVars >>
           /\ (c.kind = "undo" /\ c.ok)
                 => sameHistory /\ current_index' = current_index - 1
           /\ (c.kind = "redo" /\ c.ok)
                 => sameHistory /\ current_index' = current_index + 1 ]_vars

\* an undo() whose operation step returned false
FailedStepWitness ==
    /\ lastCall.kind = "undo"
    /\ lastCall.step = "false"
    /\ current_index >= 0

\* C5: in every state reached by execute_operation, undo, redo and
\* clear_history, can_undo() is true exactly when 0 <= current_index <
\* len(operation_history), can_redo() exactly when current_index + 1 <
\* len(operation_history), and -1 <= current_index <= len - 1.
IndexInRange ==
    /\ -1 <= current_index
    /\ current_index <= Len(operation_history) - 1
    /\ can_undo(operation_history, current_index)
          <=> (0 <= current_index /\ current_index < Len(operation_history))
    /\ can_redo(operation_history, current_index)
          <=> (current_index + 1 < Len(operation_history))

\* an operation is behind current_index and another one ahead of it
IndexInRangeWitness ==
    /\ can_undo(operation_history, current_index)
    /\ can_redo(operation_history, current_index)

\* ------------------------------------------ operations of a live drag
\* the operation the observation liveLeft is about
LiveOp == CHOOSE op \in Range(operation_history) : op.id = liveLeft.op

\* C6: a Move or Scale operation made with already_executed = True is
\* appended by execute_operation without changing any shape; the undo()
\* that follows applies the inverse change (the shapes moved by the negated
\* offset, the control point back at its old position), and the redo()
\* after that leaves every shape exactly where the live drag left it.
PreviewOperationLaw ==
    /\ liveLeft.phase = "executed"
          => /\ heap = liveLeft.heap
             /\ operation_history[current_index + 1].id = liveLeft.op
    /\ liveLeft.phase = "undone"
          => LET op == LiveOp
                 sh == op.shapes[1]
             IN /\ \A k \in 1..Len(heap) : k # sh => heap[k] = liveLeft.heap[k]
                /\ op.type = "Move"
                      => heap[sh] = move_by(liveLeft.heap[sh], PNeg(op.offset))
                /\ op.type = "Scale"
                      => /\ ControlPointPositions(heap[sh])[op.cp + 1] = op.old_position
                         /\ \A c \in 1..Len(heap[sh].pts) :
                               c # op.cp + 1 => heap[sh].pts[c] = liveLeft.heap[sh].pts[c]
    /\ liveLeft.phase = "redone" => heap = liveLeft.heap

\* execute, undo and redo of the operation of a live scale have been made
PreviewOperationWitness ==
    /\ liveLeft.phase = "redone"
    /\ LiveOp.type = "Scale"
    /\ heap # << >>

\* ------------------------------------------------ laws of the gestures
\* the history after one more operation of the given type on the shape id
\* was appended right behind current_index
OneMoreOperation(type, id) ==
    /\ Len(operation_history') = current_index + 2
    /\ SubSeq(operation_history', 1, current_index + 1)
          = SubSeq(operation_history, 1, current_index + 1)
    /\ operation_history'[current_index + 2].type = type
    /\ operation_history'[current_index + 2].shapes = << id >>
    /\ current_index' = current_index + 1
    /\ nextOp' = nextOp + 1

\* C7: with grid snap off, a pointer-down in Idle at p on the body of a
\* shape, dragging pointer-moves that end at q # p and the pointer-up at q
\* push exactly one Move operation and leave the shape at its start position
\* plus (q - p); the undo() that follows returns true, puts the shape back at
\* its start position, and can_redo() is true after it.
MoveDragLaw ==
    (/\ gesture.kind = "move"
     /\ gesture.phase \in {"up", "undone"}
     /\ gesture.clean
     /\ gesture.moved
     /\ gesture.up = gesture.last
     /\ gesture.up # gesture.anchor)
    => LET sh == gesture.shape
           off == PSub(gesture.up, gesture.anchor)
           n == Len(gesture.hist)
       IN /\ Len(operation_history) = n + 1
          /\ SubSeq(OpIds(operation_history), 1, n) = gesture.hist
          /\ operation_history[n + 1].type = "Move"
          /\ operation_history[n + 1].shapes = << sh >>
          /\ gesture.phase = "up"
                => /\ current_index = n
                   /\ heap[sh].pts = [i \in 1..Len(gesture.start) |->
                                         PAdd(gesture.start[i], off)]
          /\ gesture.phase = "undone"
                => /\ gesture.ok
                   /\ current_index = n - 1
                   /\ heap[sh].pts = gesture.start
                   /\ can_redo(operation_history, current_index)

\* C8: with the Rectangle tool and a pointer-down in Idle on empty canvas at
\* the anchor a, every dragging pointer-move to b leaves the shape list and
\* the history as they were while the temp shape is the rectangle from a to
\* b; the pointer-up at c that ends the drag commits exactly one rectangle
\* from a to c through exactly one Create operation, selects it, clears the
\* temp slot and returns to Idle.
RectangleDragLaw ==
    [][ /\ (gesture.kind = "rect" /\ gesture.phase = "down" /\ gesture'.ev = "move")
              => /\ dm_shapes' = dm_shapes
                 /\ operation_history' = operation_history
                 /\ current_index' = current_index
                 /\ temp_shape' # None
                 /\ ShapeValue(heap'[temp_shape'])
                       = [kind |-> "Rectangle", pts |-> << gesture.anchor, gesture'.last >>]
        /\ (gesture.kind = "rect" /\ gesture.phase = "down" /\ gesture.moved
               /\ gesture'.ev = "release")
              => /\ selected' # None
                 /\ dm_shapes' = Append(dm_shapes, selected')
                 /\ ~InSeq(dm_shapes, selected')
                 /\ ShapeValue(heap'[selected'])
                       = [kind |-> "Rectangle", pts |-> << gesture.anchor, gesture'.up >>]
                 /\ OneMoreOperation("Create", selected')
                 /\ temp_shape' = None
                 /\ current_state' = "IDLE" ]_vars

\* C9: with the Polygon tool and k >= 3 vertices v0..v(k-1) gathered, a
\* click on empty canvas within the snap distance of v0 commits a polygon
\* with exactly these k vertices through exactly one Create operation,
\* clears the temp polygon, the temp slot and the gathered vertices, and
\* returns to Idle.
PolygonCloseLaw ==
    [][ (/\ current_state = "CREATING_POLYGON"
         /\ gesture'.ev = "press"
         /\ Len(polygon_vertices) >= 3
         /\ get_hit_target(World, gesture'.last).type = "none"
         /\ DistSq(gesture'.last, polygon_vertices[1])
               <= POLYGON_SNAP_DISTANCE * POLYGON_SNAP_DISTANCE * PixelSize * PixelSize)
        => /\ selected' # None
           /\ dm_shapes' = Append(dm_shapes, selected')
           /\ ~InSeq(dm_shapes, selected')
           /\ ShapeValue(heap'[selected'])
                 = [kind |-> "Polygon", pts |-> polygon_vertices]
           /\ OneMoreOperation("Create", selected')
           /\ temp_polygon' = None
           /\ temp_shape' = None
           /\ polygon_vertices' = << >>
           /\ current_state' = "IDLE" ]_vars

\* the click that closed a polygon on an empty canvas has been made
PolygonCloseWitness ==
    /\ gesture.kind = "polygon"
    /\ gesture.phase = "up"
    /\ dm_shapes = << selected >>
    /\ heap[selected].kind = "Polygon"
    /\ current_index = 0

\* C10: with the Point tool, a pointer-down in Idle on empty canvas followed
\* at once by the pointer-up at p pushes exactly one Create operation, adds
\* exactly one point at p to the shape list and returns to Idle.
PointClickLaw ==
    [][ (gesture.kind = "point" /\ gesture.ev = "press" /\ gesture'.ev = "release")
        => /\ selected' # None
           /\ dm_shapes' = Append(dm_shapes, selected')
           /\ ~InSeq(dm_shapes, selected')
           /\ ShapeValue(heap'[selected'])
                 = [kind |-> "Point", pts |-> << gesture'.up >>]
           /\ OneMoreOperation("Create", selected')
           /\ current_state' = "IDLE" ]_vars

\* a click with the Point tool at the origin has been made
PointClickWitness ==
    /\ gesture.kind = "point"
    /\ gesture.phase = "up"
    /\ ~gesture.moved
    /\ gesture.up = <<0, 0>>
    /\ dm_shapes # << >>

\* -------------------------------------------------- laws of the data store
\* the number of places of the list that hold the shape
Occurrences(shapes, s) == Cardinality({ i \in 1..Len(shapes) : shapes[i] = s })

\* C11: add_shape is idempotent per shape reference.  The list never holds
\* the same reference twice; add_shape(s) with s already in the list changes
\* nothing of the data store and publishes no event; add_shape(s) with s
\* not in the list appends s and publishes one shape-added event, so that
\* add_shape(s); add_shape(s) leaves one entry and one shape-added event.
AddShapeLaw ==
    [][ /\ \A s \in Range(dm_shapes') : Occurrences(dm_shapes', s) = 1
        /\ dataCall'.kind = "add_shape" =>
              IF InSeq(dm_shapes, dataCall'.shape)
              THEN /\ dm_shapes' = dm_shapes
                   /\ selected' = selected /\ hovered' = hovered
                   /\ published' = << >>
              ELSE /\ dm_shapes' = Append(dm_shapes, dataCall'.shape)
                   /\ published' = << EventOf("SHAPE_ADDED", dataCall'.shape) >> ]_vars

\* a shape of the list was added again
AddShapeWitness ==
    /\ dataCall.kind = "add_shape"
    /\ published = << >>
    /\ Occurrences(dm_shapes, dataCall.shape) = 1

\* C12: remove_shape(s) returns true exactly when s is in the list.  Then s
\* is gone from the list and the other shapes keep their order, the
\* selection is cleared if s was selected and kept otherwise, the hover is
\* cleared if s was hovered and kept otherwise, and exactly one
\* shape-removed event is published, for s.  When s is not in the list the
\* call returns false, publishes nothing and changes nothing.
RemoveShapeLaw ==
    [][ dataCall'.kind = "remove_shape" =>
          IF InSeq(dm_shapes, dataCall'.shape)
          THEN /\ dataCall'.ret
               /\ dm_shapes' = SelectSeq(dm_shapes, LAMBDA x : x # dataCall'.shape)
               /\ selected' = IF selected = dataCall'.shape THEN None ELSE selected
               /\ hovered' = IF hovered = dataCall'.shape THEN None ELSE hovered
               /\ Cardinality({ i \in 1..Len(published') :
                                  published'[i].type = "SHAPE_REMOVED" }) = 1
               /\ \A i \in 1..Len(published') :
                      published'[i].type = "SHAPE_REMOVED"
                          => published'[i].shape = dataCall'.shape
          ELSE /\ ~dataCall'.ret
               /\ published' = << >>
               /\ UNCHANGED dataVars ]_vars

\* the selected and hovered shape was removed
RemoveShapeWitness ==
    /\ dataCall.kind = "remove_shape"
    /\ dataCall.ret
    /\ ~InSeq(dm_shapes, dataCall.shape)
    /\ Len(published) = 2
    /\ published[1] = EventOf("SHAPE_DESELECTED", dataCall.shape)
    /\ selected = None
    /\ hovered = None
    /\ dm_shapes # << >>

\* C13: select_shape(x) while y is selected leaves x selected.  With x # y
\* it publishes shape-deselected for y (when y is a shape) and then
\* shape-selected for x (when x is a shape), in this order and nothing
\* else; with x = y it publishes nothing.
SelectShapeLaw ==
    [][ dataCall'.kind = "select_shape" =>
          /\ selected' = dataCall'.shape
          /\ published' =
                IF dataCall'.shape = selected THEN << >>
                ELSE (IF selected = None THEN << >>
                      ELSE << EventOf("SHAPE_DESELECTED", selected) >>)
                     \o (IF dataCall'.shape = None THEN << >>
                         ELSE << EventOf("SHAPE_SELECTED", dataCall'.shape) >>) ]_vars

\* the selection went from one shape to another
SelectShapeWitness ==
    /\ dataCall.kind = "select_shape"
    /\ Len(published) = 2
    /\ published[2] = EventOf("SHAPE_SELECTED", selected)
    /\ published[1].type = "SHAPE_DESELECTED"
    /\ published[1].shape # selected

\* the shapes of the list whose outline is within the hit tolerance of pos
OutlinesAt(pos) ==
    { i \in 1..Len(dm_shapes) :
        contains_point_on_boundary(heap[dm_shapes[i]], pos, PIXEL_TOLERANCE * PixelSize) }

\* a control point of the selected shape is within the control-point
\* tolerance of pos
ControlPointAt(pos) ==
    /\ selected # None
    /\ \E c \in 1..Len(ControlPointPositions(heap[selected])) :
          DistSq(pos, ControlPointPositions(heap[selected])[c])
              <= (CONTROL_POINT_TOLERANCE * PixelSize) * (CONTROL_POINT_TOLERANCE * PixelSize)

\* C14: get_hit_target(pos) answers by priority.  A control point of the
\* selected shape within the control-point tolerance wins: the hit is a
\* control_point and its owner is the selected shape.  Otherwise the shape
\* latest in the list whose outline is within the hit tolerance is returned
\* as a shape hit.  Otherwise there is no hit.  A control point is never
\* returned for a shape that is not the selected one.
HitTargetLaw ==
    dataCall.kind = "get_hit_target" =>
        /\ IF ControlPointAt(dataCall.pos)
           THEN /\ dataCall.hit.type = "control_point"
                /\ dataCall.hit.shape = selected
           ELSE IF OutlinesAt(dataCall.pos) # {}
           THEN /\ dataCall.hit.type = "shape"
                /\ \E i \in OutlinesAt(dataCall.pos) :
                      /\ dataCall.hit.target = dm_shapes[i]
                      /\ \A j \in OutlinesAt(dataCall.pos) : j <= i
           ELSE dataCall.hit.type = "none"
        /\ dataCall.hit.type = "control_point" =>
              /\ selected # None
              /\ dataCall.hit.shape = selected

\* a control point of the selected shape is hit although the outline of a
\* shape later in the list lies under the position too
HitTargetWitness ==
    /\ dataCall.kind = "get_hit_target"
    /\ dataCall.hit.type = "control_point"
    /\ \E i \in OutlinesAt(dataCall.pos) :
          /\ dm_shapes[i] # selected
          /\ \E j \in 1..Len(dm_shapes) : j < i /\ dm_shapes[j] = selected

\* an import entry the factory does not decode, a setting that is no
\* member of its enumeration
Undecodable(d) == create_from_dict(d) = NoShape
InvalidSettings(st) ==
    \/ st.current_tool # NoSetting /\ EnumOf(DrawTypes, st.current_tool) = "invalid"
    \/ st.current_color # NoSetting /\ EnumOf(DrawColors, st.current_color) = "invalid"
    \/ st.current_width # NoSetting /\ EnumOf(PenWidths, st.current_width) = "invalid"
Malformed(data) ==
    \/ \E i \in 1..Len(data.shapes) : Undecodable(data.shapes[i])
    \/ InvalidSettings(data.settings)

\* the variant, points, colour and pen width of the shapes of a list
Drawn(h, shapes) ==
    [i \in 1..Len(shapes) |->
        [kind |-> h[shapes[i]].kind, pts |-> h[shapes[i]].pts,
         color |-> h[shapes[i]].color, pen_width |-> h[shapes[i]].pen_width]]

\* C17: an import is all or nothing.  import_data with data that holds an
\* undecodable shape entry or an invalid tool, colour or width setting
\* leaves the shape list, the selection and the settings as they were.
ImportAllOrNothing ==
    [][ dataCall'.kind = "import_data" /\ Malformed(dataCall'.data) =>
          /\ Drawn(heap', dm_shapes') = Drawn(heap, dm_shapes)
          /\ (selected' = None) = (selected = None)
          /\ current_tool' = current_tool
          /\ current_color' = current_color
          /\ current_width' = current_width ]_vars

\* C18: import_data(export_data()) keeps the shapes: their number, their
\* order and, of each, the variant, the defining points, the colour and the
\* pen width; and it keeps the tool, colour and width settings.
ExportImportRoundTrip ==
    [][ dataCall'.kind = "import_data" /\ dataCall'.data = export_data(World) =>
          /\ Drawn(heap', dm_shapes') = Drawn(heap, dm_shapes)
          /\ current_tool' = current_tool
          /\ current_color' = current_color
          /\ current_width' = current_width ]_vars

\* ---------------------------------------------------- laws of the event bus
\* C15: publish calls exactly the handlers that are subscribed to the kind
\* when publish is called, each once, in the order of their subscription.
\* A handler that is subscribed while the event is delivered is not called
\* for it and one that is unsubscribed meanwhile is still called; the next
\* publish goes by the list as it is then.
PublishSnapshotLaw ==
    [][ dispatch'.type # "none" /\ dispatch'.error = "none" =>
          dispatch'.invoked = subscribers[dispatch'.type] ]_vars

\* an event was delivered to a handler that was unsubscribed meanwhile and
\* not to the one that was subscribed meanwhile
PublishSnapshotWitness ==
    /\ dispatch.type # "none"
    /\ dispatch.error = "none"
    /\ InSeq(dispatch.invoked, 1)
    /\ InSeq(dispatch.invoked, 2)
    /\ ~InSeq(subscribers[dispatch.type], 2)
    /\ ~InSeq(dispatch.invoked, 3)
    /\ InSeq(subscribers[dispatch.type], 3)

\* the list of the kind after the handlers hs were called in turn
RECURSIVE AfterCallbacks(_, _, _)
AfterCallbacks(subs, type, hs) ==
    IF hs = << >> THEN subs
    ELSE AfterCallbacks(Callback(subs, type, Head(hs)), type, Tail(hs))

\* C16: when the i-th handler of the list raises, the handlers before it
\* have run, it was called, and no handler after it is called; the caller
\* gets an EventHandlerError that carries the value of the event kind; and
\* the fault takes no handler off the list and puts none on it: the list
\* is what the handlers that ran have made of it.
PublishFaultLaw ==
    [][ dispatch'.type # "none" /\ dispatch'.error # "none" =>
          /\ dispatch'.error = "EventHandlerError"
          /\ dispatch'.event_type = EventTypeValue(dispatch'.type)
          /\ \E i \in 1..Len(subscribers[dispatch'.type]) :
                /\ subscribers[dispatch'.type][i] = dispatch'.raiser
                /\ dispatch'.invoked = SubSeq(subscribers[dispatch'.type], 1, i)
                /\ subscribers' =
                      AfterCallbacks(subscribers, dispatch'.type,
                                     SubSeq(subscribers[dispatch'.type], 1, i - 1)) ]_vars

\* a handler in the middle of a list of three raised
PublishFaultWitness ==
    /\ dispatch.error = "EventHandlerError"
    /\ Len(dispatch.invoked) = 2
    /\ Len(subscribers[dispatch.type]) >= 3
    /\ InSeq(subscribers[dispatch.type], dispatch.raiser)

\* --------------------------------------------------------- laws of a shape
\* the value the clamp leaves of z
Clamped(z) ==
    IF z < MIN_Z_ORDER THEN MIN_Z_ORDER ELSE IF z > MAX_Z_ORDER THEN MAX_Z_ORDER ELSE z

\* C19: the z-order is clamped.  A shape constructed with z_order = z, and
\* a shape after set_z_order(z), stores MIN_Z_ORDER if z is below it,
\* MAX_Z_ORDER if z is above it and z otherwise; whatever sequence of
\* set_z_order, bring_to_front and send_to_back is applied, the stored
\* z-order lies within [MIN_Z_ORDER, MAX_Z_ORDER].
ZOrderClampLaw ==
    /\ \A s \in 1..Len(heap) :
          MIN_Z_ORDER <= heap[s].z_order /\ heap[s].z_order <= MAX_Z_ORDER
    /\ dataCall.kind \in { "EllipseShape", "set_z_order" } /\ dataCall.z # << >> =>
          heap[dataCall.shape].z_order = Clamped(dataCall.z[1])

\* set_z_order was called with a value above the range
ZOrderClampWitness ==
    /\ dataCall.kind = "set_z_order"
    /\ dataCall.z[1] > MAX_Z_ORDER
    /\ heap[dataCall.shape].z_order = MAX_Z_ORDER

\* the ellipse with centre (0, 0), x-radius 10 and y-radius 5
IsUnitEllipse(sh) == sh.kind = "Ellipse" /\ sh.pts = << <<-10, -5>>, <<10, 5>> >>
\* an ellipse with two positive radii, and its centre
IsProperEllipse(sh) ==
    /\ sh.kind = "Ellipse"
    /\ sh.pts[1][1] # sh.pts[2][1]
    /\ sh.pts[1][2] # sh.pts[2][2]
IsCentre(sh, p) ==
    /\ 2 * p[1] = sh.pts[1][1] + sh.pts[2][1]
    /\ 2 * p[2] = sh.pts[1][2] + sh.pts[2][2]

\* C20: of the ellipse with centre (0, 0), x-radius 10 and y-radius 5 and
\* with the default tolerance, (0, 0) is contained and is not on the
\* boundary, (10, 0) is on the boundary, and (100, 100) is neither
\* contained nor on the boundary; and the centre of an ellipse with two
\* positive radii is never on its boundary.
EllipseCentreLaw ==
    /\ dataCall.kind = "contains_point" /\ IsUnitEllipse(heap[dataCall.shape]) =>
          /\ dataCall.pos = <<0, 0>> => dataCall.ret
          /\ dataCall.pos = <<100, 100>> => ~dataCall.ret
    /\ dataCall.kind = "contains_point_on_boundary" /\ IsUnitEllipse(heap[dataCall.shape]) =>
          /\ dataCall.pos = <<0, 0>> => ~dataCall.ret
          /\ dataCall.pos = <<10, 0>> => dataCall.ret
          /\ dataCall.pos = <<100, 100>> => ~dataCall.ret
    /\ /\ dataCall.kind = "contains_point_on_boundary"
       /\ IsProperEllipse(heap[dataCall.shape])
       /\ IsCentre(heap[dataCall.shape], dataCall.pos)
       => ~dataCall.ret

\* --------------------------------------------------- laws of the keyboard
\* C21: after any sequence of pointer events, delete, undo and redo, at most
\* one shape of the list has its hovered flag set, and a shape that has it
\* set is the hovered shape of the data store
Flagged == { i \in 1..Len(dm_shapes) : heap[dm_shapes[i]].hovered }
HoverFlagLaw ==
    /\ Cardinality(Flagged) <= 1
    /\ \A i \in Flagged : dm_shapes[i] = hovered

\* C22: the state machine starts in Idle.  A pointer-up processed in
\* CreatingPoint, CreatingRect, CreatingEllipse, Moving or Scaling leaves
\* the state Idle; one processed in CreatingPolygon leaves the state, the
\* gathered vertices, the shape list and the history as they were.  Every
\* state has a way back to Idle: the pointer-up in a drag state (the button
\* is down there), Escape in CreatingPolygon, which cancels at once or
\* opens the dialog, and the answer Yes in the dialog.
DragStates == {"CREATING_POINT", "CREATING_RECT", "CREATING_ELLIPSE", "MOVING", "SCALING"}
IsInput(kind) == events' = events + 1 /\ dataCall'.kind = kind
ReleaseStepLaw ==
    IsInput("mouse_release") =>
        /\ current_state \in DragStates => current_state' = "IDLE"
        /\ current_state = "CREATING_POLYGON" =>
              /\ current_state' = "CREATING_POLYGON"
              /\ polygon_vertices' = polygon_vertices
              /\ dm_shapes' = dm_shapes
              /\ operation_history' = operation_history
              /\ current_index' = current_index
StepRoom ==
    /\ events < EventBudget
    /\ Len(heap) < MaxShapes
    /\ nextOp <= MaxOps
WayBack ==
    LET Idle(s) == s.sm.state = "IDLE"
        Escaped(r) == Idle(r.s) \/ r.events = << EventOf("CONFIRM_CANCEL_POLYGON", None) >>
        Released(s) == Within(s) /\ Idle(s)
    IN /\ dispatch = Asking => Idle(_on_confirm_cancel_polygon(Sys, TRUE).s)
       /\ (dispatch = NoDispatch /\ StepRoom /\ current_state = "CREATING_POLYGON") =>
             Escaped(EscapePressed(Sys))
       /\ (dispatch = NoDispatch /\ StepRoom /\ current_state \in DragStates) =>
             /\ left_button_pressed
             /\ \E pos \in Positions : Released(Collect(_on_mouse_release(Sys, pos)))
PointerUpLaw ==
    /\ [](events = 0 => current_state = "IDLE")
    /\ [][ReleaseStepLaw]_vars
    /\ []WayBack
\* a drag of a shape has ended with its Move operation and the state Idle
PointerUpWitness ==
    /\ dataCall.kind = "mouse_release"
    /\ current_state = "IDLE"
    /\ current_index = 0
    /\ operation_history[1].type = "Move"

\* C23: when a subscriber raises while the completion events of a Moving or
\* Scaling gesture are published, the pointer-up still clears the
\* bookkeeping of the drag and leaves the state machine in Idle
FailedFinishStep ==
    (IsInput("mouse_release") /\ dataCall'.raised /\ current_state \in {"MOVING", "SCALING"}) =>
        /\ current_state' = "IDLE"
        /\ drag_start_shape' = None
        /\ drag_start_pos' = NoPos
        /\ drag_start_control_point' = NoCp
        /\ move_start_mouse_pos' = NoPos
        /\ scale_start_pos' = NoPos
FailedFinishLaw == [][FailedFinishStep]_vars

\* C24: whenever execute_operation returns false for a Create, Delete or
\* Import operation, a subscriber raising while shape-added or shape-removed
\* is published included, the shape list is the same as before the call
FailedExecuteStep ==
    (nextOp' = nextOp + 1 /\ lastCall'.kind = "execute" /\ ~lastCall'.ok) =>
        dm_shapes' = dm_shapes
FailedExecuteLaw == [][FailedExecuteStep]_vars

\* C25: a pointer-down in Idle goes by what it hits.  A control point: the
\* state is Scaling and the control point, its shape and its position are
\* on record.  A shape: the shape is selected and the state is Moving.
\* Nothing: the Point tool leaves the state pointState and the shape list as
\* it is, the Rectangle tool gives CreatingRect, the Ellipse tool
\* CreatingEllipse, the Polygon tool CreatingPolygon with the position of
\* the pointer-down as the only vertex.  A pointer-down in a state other
\* than Idle and CreatingPolygon changes nothing.
PressStep(pointState) ==
    LET pos == dataCall'.pos
        Dispatched(hit) ==
            /\ hit.type = "control_point" =>
                  /\ current_state' = "SCALING"
                  /\ drag_start_control_point' = hit.target
                  /\ drag_start_shape' = hit.shape
                  /\ scale_start_pos' = ControlPointPositions(heap[hit.shape])[hit.target + 1]
            /\ hit.type = "shape" =>
                  /\ selected' = hit.target
                  /\ current_state' = "MOVING"
            /\ (hit.type = "none" /\ current_tool = "POINT") =>
                  /\ current_state' = pointState
                  /\ dm_shapes' = dm_shapes
            /\ (hit.type = "none" /\ current_tool = "RECTANGLE") =>
                  current_state' = "CREATING_RECT"
            /\ (hit.type = "none" /\ current_tool = "ELLIPSE") =>
                  current_state' = "CREATING_ELLIPSE"
            /\ (hit.type = "none" /\ current_tool = "POLYGON") =>
                  /\ current_state' = "CREATING_POLYGON"
                  /\ polygon_vertices' = << pos >>
    IN IsInput("mouse_press") =>
          /\ current_state = "IDLE" => Dispatched(get_hit_target(World, pos))
          /\ current_state \notin {"IDLE", "CREATING_POLYGON"} =>
                UNCHANGED << dataVars, stackVars, smVars >>
\* as the claim has it: with the Point tool the state stays Idle
PressStaysIdleLaw == [][PressStep("IDLE")]_vars
\* as the code has it: with the Point tool the state is CreatingPoint, and
\* the pointer-up that follows creates the point
PressDispatchLaw == [][PressStep("CREATING_POINT")]_vars
\* a pointer-down with the Point tool that hit nothing
PressDispatchWitness ==
    /\ dataCall.kind = "mouse_press"
    /\ current_state = "CREATING_POINT"
    /\ dm_shapes = << >>

\* C26: in CreatingPolygon a pointer-down that hits a shape or a control
\* point finishes the polygon with the vertices gathered so far, the
\* position of the click not among them.  A finish with fewer than three
\* vertices adds no shape and pushes no operation, empties the vertex list
\* and the temp slot and leaves the state Idle; one with three or more adds
\* the polygon of these vertices.  A pointer-down that hits nothing and does
\* not close the polygon appends its position, one vertex, and the state
\* stays CreatingPolygon.
PolygonPressStep ==
    LET pos == gesture'.last
        vs == polygon_vertices
        Cleared ==
            /\ polygon_vertices' = << >>
            /\ temp_polygon' = None
            /\ temp_shape' = None
            /\ current_state' = "IDLE"
        Finished ==
            IF Len(vs) < POLYGON_MIN_VERTICES
            THEN /\ Cleared
                 /\ dm_shapes' = dm_shapes
                 /\ operation_history' = operation_history
                 /\ current_index' = current_index
            ELSE /\ Cleared
                 /\ Len(dm_shapes') = Len(dm_shapes) + 1
                 /\ heap'[dm_shapes'[Len(dm_shapes')]].kind = "Polygon"
                 /\ heap'[dm_shapes'[Len(dm_shapes')]].pts = vs
        Pressed(hit) ==
            /\ hit.type # "none" => Finished
            /\ (hit.type = "none" /\ ~ClosesPolygon(vs, pos)) =>
                  /\ polygon_vertices' = Append(vs, pos)
                  /\ current_state' = "CREATING_POLYGON"
                  /\ dm_shapes' = dm_shapes
    IN (~left_button_pressed /\ left_button_pressed' /\ current_state = "CREATING_POLYGON")
          => Pressed(get_hit_target(World, pos))
Cancelled ==
    /\ polygon_vertices' = << >>
    /\ temp_polygon' = None
    /\ temp_shape' = None
    /\ current_state' = "IDLE"
    /\ dm_shapes' = dm_shapes
    /\ UNCHANGED << operation_history, current_index >>
IsAnswer(reply) == dispatch = Asking /\ dispatch' = NoDispatch /\ dataCall'.ret = reply
EscapeStep ==
    /\ (IsInput("escape") /\ current_state = "CREATING_POLYGON"
          /\ Len(polygon_vertices) > POLYGON_CANCEL_MIN_VERTICES) =>
             /\ published' = << EventOf("CONFIRM_CANCEL_POLYGON", None) >>
             /\ dispatch' = Asking
             /\ UNCHANGED << dataVars, stackVars, smVars >>
    /\ (IsInput("escape") /\ current_state = "CREATING_POLYGON"
          /\ Len(polygon_vertices) <= POLYGON_CANCEL_MIN_VERTICES) =>
             /\ published' = << >>
             /\ Cancelled
    /\ (IsInput("escape") /\ current_state # "CREATING_POLYGON") =>
             /\ published' = << >>
             /\ dispatch' = NoDispatch
             /\ UNCHANGED << dataVars, stackVars, smVars >>
    /\ IsAnswer(TRUE) => Cancelled
    /\ dispatch = Asking =>
          (IsAnswer(TRUE) \/ IsAnswer(FALSE) \/ UNCHANGED << dataVars, stackVars, smVars >>)
EscapeLaw ==
    /\ [](dispatch = Asking =>
             /\ current_state = "CREATING_POLYGON"
             /\ Len(polygon_vertices) > POLYGON_CANCEL_MIN_VERTICES)
    /\ [][EscapeStep]_vars
\* the user has answered Yes and the polygon of two vertices is gone
EscapeWitness ==
    /\ dataCall.kind = "answer"
    /\ dataCall.ret
    /\ published = << EventOf("CANCEL_POLYGON_CONFIRMED", None) >>
    /\ current_state = "IDLE"
    /\ polygon_vertices = << >>

\* C28: a negative answer cancels nothing: when the user declines in the
\* dialog, or a cancel-confirmed event carries false, the state stays
\* CreatingPolygon and the vertices and the temp polygon are kept
NegativeAnswerStep ==
    (/\ current_state = "CREATING_POLYGON"
     /\ IsAnswer(FALSE) \/ (IsInput("cancel_polygon_confirmed") /\ ~dataCall'.ret)) =>
        /\ current_state' = "CREATING_POLYGON"
        /\ polygon_vertices' = polygon_vertices
        /\ temp_polygon' = temp_polygon
NegativeAnswerLaw == [][NegativeAnswerStep]_vars

\* C29: hover is evaluated in Idle only.  A pointer-move in any other state
\* publishes no hover-changed and no control-point-hover-changed event and
\* changes no hovered flag; in Idle a pointer-move that leaves the hovered
\* shape and the hovered control point the same publishes no hover event.
SameFlags ==
    \A id \in 1..Min2(Len(heap), Len(heap')) :
        /\ heap'[id].hovered = heap[id].hovered
        /\ heap'[id].cp_hovered = heap[id].cp_hovered
HoverStep ==
    /\ (IsInput("mouse_move") /\ current_state # "IDLE") =>
          /\ published' = << >>
          /\ SameFlags
    /\ (IsInput("mouse_move") /\ current_state = "IDLE" /\ hovered' = hovered /\ SameFlags) =>
          published' = << >>
HoverLaw == [][HoverStep]_vars

\* C30: a pointer-move in Moving or Scaling changes neither
\* operation_history nor current_index, and the pointer-up that ends a drag
\* of a shape or of a control point pushes exactly one operation when the
\* net displacement is not zero and none when it is zero
NetDisplacement(pos) ==
    IF current_state = "MOVING" THEN pos # gesture.anchor
    ELSE ControlPointPositions(heap[drag_start_shape])[drag_start_control_point + 1]
            # scale_start_pos
DragStep ==
    LET live == gesture.kind \in {"move", "scale"} /\ gesture.phase = "down"
                   /\ current_state \in {"MOVING", "SCALING"}
    IN /\ (live /\ gesture'.ev = "move") =>
             UNCHANGED << operation_history, current_index >>
       /\ (live /\ gesture'.ev = "release" /\ NetDisplacement(gesture'.up)) =>
             /\ current_index' = current_index + 1
             /\ Len(operation_history') = current_index + 2
             /\ SubSeq(operation_history', 1, current_index + 1)
                   = SubSeq(operation_history, 1, current_index + 1)
             /\ operation_history'[current_index + 2].type
                   = (IF current_state = "MOVING" THEN "Move" ELSE "Scale")
       /\ (live /\ gesture'.ev = "release" /\ ~NetDisplacement(gesture'.up)) =>
             UNCHANGED << operation_history, current_index >>
DragPushLaw == [][DragStep]_vars

\* --------------------------------------------------- laws of a live drag
\* C31: in Moving, after every dragging pointer-move at q the shape sits at
\* its position of the pointer-down plus (snap(q) - position of the
\* pointer-down), snap being the identity when grid snap is off, whatever
\* pointer-moves came before
MovePositionLaw ==
    (/\ gesture.kind = "move"
     /\ gesture.phase = "down"
     /\ gesture.ev = "move")
    => LET off == PSub(SnappedPos(gesture.last, ~gesture.clean), gesture.anchor)
       IN heap[gesture.shape].pts
             = [i \in 1..Len(gesture.start) |-> PAdd(gesture.start[i], off)]


ForcedCleanupLaw ==
    (dataCall.kind = "mouse_press" /\ dataCall.ret)
        => \A shape \in _shape_graphics_items :
              InSeq(dm_shapes, shape) \/ shape = temp_shape
ForcedCleanupWitness ==
    /\ dataCall.kind = "mouse_press"
    /\ dataCall.ret
    /\ dataCall.shape # None
    /\ dataCall.shape \notin _shape_graphics_items
    /\ _shape_graphics_items # {}

\* C38: whenever the state machine is in Idle, after any interleaving of
\* pointer gestures, Delete, undo and redo, the shapes that have a graphics
\* item are the shapes of the list
RendererTracksList ==
    current_state = "IDLE" => _shape_graphics_items = Range(dm_shapes)


\* ------------------------------------------------ laws of a finished drag
\* C34: the Move operation recorded by the pointer-up of a Moving gesture
\* carries the displacement the live preview applied, the position of the
\* shape at the pointer-up minus its position at the pointer-down
MoveRecordStep ==
    (/\ gesture.kind = "move"
     /\ gesture.phase = "down"
     /\ current_state = "MOVING"
     /\ gesture'.ev = "release"
     /\ current_index' = current_index + 1)
    => LET op == operation_history'[current_index' + 1]
       IN /\ op.type = "Move"
          /\ op.offset = PSub(heap'[gesture.shape].pts[1], gesture.start[1])
MoveRecordLaw == [][MoveRecordStep]_vars


\* ------------------------------------------------- laws of the selection
\* C35: after any sequence of pointer gestures, Delete, Shift+Delete, undo
\* and redo the selected shape is None or in the list, and so is the hovered
\* shape
SelectionInList ==
    /\ selected = None \/ InSeq(dm_shapes, selected)
    /\ hovered = None \/ InSeq(dm_shapes, hovered)

SelectionInListWitness ==
    /\ track = "render"
    /\ dataCall.kind = "delete"
    /\ current_index >= 0
    /\ operation_history[current_index + 1].type = "Delete"
    /\ selected = None
    /\ current_state = "MOVING"
    /\ ~InSeq(dm_shapes, drag_start_shape)


\* ---------------------------------------------- laws of the executed flag
\* C36: after any sequence of execute_operation, undo and redo every stateful
\* operation at a position <= current_index has executed = true and every
\* one after it has executed = false; execute_operation rejects an operation
\* whose executed flag is true: it returns false and leaves the history alone
Stateful(k) == operation_history[k].type # "Import"
ExecutedRejectedStep ==
    (/\ lastCall'.kind = "execute"
     /\ \E k \in 1..Len(operation_history) :
           /\ Stateful(k)
           /\ operation_history[k].id = lastCall'.op
           /\ operation_history[k].executed)
    => /\ ~lastCall'.ok
       /\ UNCHANGED << operation_history, current_index >>
ExecutedFlagLaw ==
    /\ [](\A k \in 1..Len(operation_history) :
             Stateful(k) => (operation_history[k].executed <=> k <= current_index + 1))
    /\ [][ExecutedRejectedStep]_vars
ExecutedFlagWitness ==
    /\ lastCall.kind = "execute"
    /\ ~lastCall.ok
    /\ lastCall.step = "false"
    /\ Len(operation_history) = 2
    /\ current_index = 0
    /\ operation_history[1].id = lastCall.op
    /\ ~operation_history[2].executed


\* ------------------------------------------------------- laws of Idle
\* C37: whenever the state machine is in Idle between two input events the
\* temp-shape slot is None, the list of the gathered polygon vertices is
\* empty and the temp polygon is None; and the shape in the temp-shape slot
\* is never in the list of the shapes
IdleLaw ==
    /\ current_state = "IDLE" =>
          /\ temp_shape = None
          /\ polygon_vertices = << >>
          /\ temp_polygon = None
    /\ temp_shape # None => ~InSeq(dm_shapes, temp_shape)

IdleWitness ==
    /\ track = "keys"
    /\ current_state = "IDLE"
    /\ dataCall.kind = "mouse_release"
    /\ selected # None
    /\ heap[selected].kind \in {"Rectangle", "Ellipse"}
    /\ InSeq(dm_shapes, selected)


\* --------------------------------------- laws of the confirmed cancel
\* C39: a CANCEL_POLYGON_CONFIRMED event delivered in a state other than
\* CreatingPolygon leaves the state, the bookkeeping of the drag and the
\* temp-shape slot as they are
CancelElsewhereStep ==
    (/\ IsInput("cancel_polygon_confirmed")
     /\ current_state # "CREATING_POLYGON")
    => UNCHANGED << current_state, drag_start_pos, drag_start_shape,
                    drag_start_control_point, move_start_mouse_pos,
                    move_start_shape_pos, scale_start_pos, temp_shape >>
CancelElsewhereLaw == [][CancelElsewhereStep]_vars


\* --------------------------------------------------- laws of the origin
\* C40: a drag does the same at the origin as anywhere else: every dragging
\* pointer-move of a rectangle or ellipse creation leaves a temp shape, every
\* dragging pointer-move in Moving puts the shape at its start position plus
\* the offset of the pointer, every dragging pointer-move in Scaling scales
\* the shape by the dragged control point, and the pointer-up of a Moving
\* gesture away from its pointer-down pushes one operation
OriginFreeStep ==
    LET dragged == gesture.phase = "down" /\ gesture'.ev = "move"
        q == SnappedPos(gesture'.last, snap_to_grid)
    IN /\ (/\ dragged
           /\ gesture.kind \in {"rect", "ellipse"}
           /\ current_state \in {"CREATING_RECT", "CREATING_ELLIPSE"})
          => temp_shape' # None
       /\ (dragged /\ gesture.kind = "move" /\ current_state = "MOVING")
          => heap'[gesture.shape].pts
                = [i \in 1..Len(gesture.start) |->
                      PAdd(gesture.start[i], PSub(q, gesture.anchor))]
       /\ (dragged /\ gesture.kind = "scale" /\ current_state = "SCALING")
          => heap'[gesture.shape]
                = scale_by_control_point(heap[gesture.shape], drag_start_control_point, q)
       /\ (/\ gesture.phase = "down"
           /\ gesture.kind = "move"
           /\ current_state = "MOVING"
           /\ gesture'.ev = "release"
           /\ gesture'.up # gesture.anchor)
          => current_index' = current_index + 1
OriginFreeLaw == [][OriginFreeStep]_vars

====
